---- MODULE Spec2Model ----
(***************************************************************************)
(* PromptDjMidi (src/index.tsx): the playback engine, the channel store    *)
(* and the throttled prompt push, as a state machine.                      *)
(*                                                                         *)
(* One action is one browser task: an event handler, or the continuation   *)
(* of an async function after the promise it awaits settles, together with *)
(* every continuation that becomes runnable in the same task (an await on  *)
(* an already settled promise resumes in a microtask, before any other     *)
(* task).  The awaits that span tasks are those of ai.live.music.connect   *)
(* and of a pending setSessionPrompts promise; decodeAudioData and the     *)
(* SDK's setWeightedPrompts await nothing.  Handlers are written as        *)
(* operators from a world record w (all the fields a handler reads or      *)
(* writes, and the log of its calls on the session) to the world after the *)
(* handler; Commit(w) assigns the record to the variables.                 *)
(*                                                                         *)
(* Time: Date.now() is read only by throttle(), as the time since the      *)
(* last accepted call; it is kept in ticks of 100 ms, saturating at the    *)
(* throttle delay.  audioContext.currentTime and the setTimeout clock are  *)
(* kept in whole seconds.                                                  *)
(*                                                                         *)
(* Spec is the channel store and the engine without audio; SpecPushes      *)
(* adds a stopwatch at the far end of the session; SpecAudio is the engine *)
(* with the chunk scheduler, watched from the audio output, and            *)
(* SpecAudioLive the same with fairness; SpecInputs is the channel store   *)
(* under the weight inputs, preset import and load, and reset;             *)
(* SpecPresets is the channel store under export, import and preset load;  *)
(* SpecRecorder is the recorder with the events of its MediaRecorders, its *)
(* conversions and the teardown; SpecMidi is the MIDI device list, the     *)
(* learn mode and the messages of the devices; SpecFilter is the engine    *)
(* with a server that rejects prompt texts, under preset load and reset;   *)
(* SpecNames is the collection of named presets under save, delete,        *)
(* favorite and import; SpecTexts is the channel texts under text edits,   *)
(* import and preset load.  Weights are whole numbers of 1/WeightUnit.     *)
(***************************************************************************)
EXTENDS Integers, Sequences, FiniteSets, TLC

\* ------------------------------------------------------------- bounds
NumChannels == 2       \* channels modelled (the program has 16)
MaxSessions == 2       \* connect() calls in one behaviour
MaxTasks == 2          \* async invocations suspended at the same time
MaxTimers == 2         \* setTimeout callbacks pending at the same time
MaxTime == 6           \* audioContext.currentTime, seconds
MaxNextStart == 9      \* largest value of nextStartTime, seconds
MaxRecorders == 3      \* MediaRecorder objects created in one behaviour
MaxURLs == 3           \* URL.createObjectURL calls in one behaviour
NumMidiInputs == 2     \* MIDI input devices that exist
MaxMidiRequests == 1   \* requestMIDIAccess() calls pending at the same time
MaxStateChanges == 2   \* statechange events pending at the same time

\* -------------------------------------------------- program constants
ThrottleDelay == 2     \* throttle(..., 200): 200 ms in ticks of 100 ms
bufferTime == 2        \* private readonly bufferTime = 2 (seconds)
WeightUnit == 50800    \* integer weight units per 1.0 of weight

PromptIds == 0 .. (NumChannels - 1)

\* DEFAULT_PROMPTS, first entries
DEFAULT_PROMPTS ==
  << [color |-> "#9900ff", text |-> "Bossa Nova"],
     [color |-> "#5200ff", text |-> "Chillwave"],
     [color |-> "#ff25f6", text |-> "Drum and Bass"],
     [color |-> "#2af6de", text |-> "Post Punk"] >>

\* buildDefaultPrompts(): promptId `prompt-${i}`, weight 0, cc i
buildDefaultPrompts ==
  [i \in PromptIds |->
     [promptId |-> i, text |-> DEFAULT_PROMPTS[i + 1].text, weight |-> 0,
      cc |-> i, color |-> DEFAULT_PROMPTS[i + 1].color]]

\* DEFAULT_PROMPTS.forEach((promptData, i) => ...): the promptIds in the order
\* in which buildDefaultPrompts() sets them
DefaultPromptIds == [k \in 1 .. NumChannels |-> k - 1]

\* inputs of the handlers
Texts == {DEFAULT_PROMPTS[i + 1].text : i \in PromptIds}
BlankTexts == {"", " "}                         \* a text field left blank
Weights == {0, (3 * WeightUnit) \div 2}
ChunkDurations == {1, 2}
PointerDeltas == {0 - 300, 0 - 50, 50, 300}     \* pixels
WheelDeltas == {0 - 1000, 0 - 400, 400, 1000}   \* e.deltaY
ClickPositions ==                               \* relativeY, rect.height
  {<<0 - 1, 4>>, <<0, 4>>, <<1, 4>>, <<3, 4>>, <<5, 4>>}
CCValues == {0, 64, 127}                        \* data[2] of a control change
MidiInputIds == 1 .. NumMidiInputs              \* input.id of the devices
StatusBytes == {144, 176, 177}                  \* data[0]: note on, and control
                                                \* change on channels 0 and 1
MidiData == StatusBytes \X {0, 1} \X {0, 127}    \* the bytes of a MIDI message

\* the fields of a Prompt
PromptFields == {"promptId", "text", "weight", "cc", "color"}

\* a weight that is not finite (JSON.parse reads 1e999 as Infinity), larger
\* than every other weight
Infinity == 1000 * WeightUnit

\* the files given to Import.  A file is the JSON text of
\*   top         "prompts" for an object with an array `prompts`, "array" for
\*               an array, "other" for any other value
\*   name        its `name` when that is a string, else ""
\*   isFavorite  its `isFavorite` when that is a boolean, else FALSE
\*   prompts     the array; `has` are the fields an entry has with a value
\*               other than null (for promptId: a truthy value)
\* and fileName is file.name without .json and with spaces for underscores.
\* An id outside PromptIds stands for a promptId that is not `prompt-${i}` of a
\* channel.  The files: one written by hand whose prompt has an id of its own
\* and no color; one with a weight above 2 and a weight that is not finite; a
\* bare array whose second prompt has no text; one that holds no prompts; and
\* a bare array of one prompt, which has the id of the second channel and the
\* empty string as text.
ImportFiles ==
  { [fileName |-> "B", top |-> "prompts", name |-> "", isFavorite |-> FALSE,
     prompts |-> << [promptId |-> NumChannels + 5, text |-> DEFAULT_PROMPTS[2].text,
                     weight |-> WeightUnit, cc |-> 1, color |-> "",
                     has |-> PromptFields] >>],
    [fileName |-> "B", top |-> "prompts", name |-> "C", isFavorite |-> TRUE,
     prompts |-> << [promptId |-> 0, text |-> DEFAULT_PROMPTS[1].text,
                     weight |-> 3 * WeightUnit, cc |-> 0,
                     color |-> DEFAULT_PROMPTS[1].color,
                     has |-> PromptFields],
                    [promptId |-> 1, text |-> DEFAULT_PROMPTS[2].text,
                     weight |-> Infinity, cc |-> 1,
                     color |-> DEFAULT_PROMPTS[2].color,
                     has |-> PromptFields] >>],
    [fileName |-> "C", top |-> "array", name |-> "", isFavorite |-> FALSE,
     prompts |-> << [promptId |-> 0, text |-> DEFAULT_PROMPTS[2].text,
                     weight |-> WeightUnit, cc |-> 0,
                     color |-> DEFAULT_PROMPTS[1].color,
                     has |-> PromptFields],
                    [promptId |-> 1, text |-> "", weight |-> WeightUnit,
                     cc |-> 1, color |-> DEFAULT_PROMPTS[2].color,
                     has |-> PromptFields \ {"text"}] >>],
    [fileName |-> "C", top |-> "other", name |-> "C", isFavorite |-> FALSE,
     prompts |-> << >>],
    [fileName |-> "A", top |-> "array", name |-> "", isFavorite |-> FALSE,
     prompts |-> << [promptId |-> 1, text |-> "", weight |-> WeightUnit,
                     cc |-> 0, color |-> DEFAULT_PROMPTS[1].color,
                     has |-> PromptFields] >>] }

VARIABLES
  connected,          \* the element is in the document (connectedCallback ran)
  prompts,            \* this.prompts: promptId -> Prompt
  filteredPrompts,    \* this.filteredPrompts
  playbackState,      \* this.playbackState
  nextStartTime,      \* this.nextStartTime
  connectionError,    \* this.connectionError
  session,            \* this.session: 0 is undefined, else a session id
  namedPresets,       \* this.namedPresets
  localStorage,       \* the two records of window.localStorage
  activePresetName,   \* this.activePresetName ("" is null)
  timeSinceLastCall,  \* throttle of setSessionPrompts: now - lastCall, saturating
  lastResult,         \* throttle of setSessionPrompts: lastResult
  tasks,              \* suspended async invocations, oldest first
  sessions,           \* the sessions connect() created: the far end
  timers,             \* due times of the pending setTimeout callbacks
  currentTime,        \* audioContext.currentTime
  timeSinceLastPush,  \* an observer on the far end: the time since the latest
                      \* setWeightedPrompts, saturating
  lastStarted,        \* an observer on the audio output: the start time of the
                      \* latest source.start(), 0 before the first
  underrunAt,         \* an observer on the toast: the time of the latest
                      \* 're-buffering...' message, 0 before the first
  sinceErrorStop,     \* an observer on the engine: 1 from a stop(true), the
                      \* stop of a session error or close, to the next call
                      \* of play(), else 0
                      \* (an observer is Unobserved when not kept)
  promptKeys,         \* the keys of this.prompts, in the order of the Map
  exported,           \* the files handleExportKnobs downloaded: the latest
  showMidi,           \* this.showMidi
  midiInputIds,       \* this.midiInputIds
  activeMidiInputId,  \* this.activeMidiInputId (0 is null)
  midiDispatcher,     \* the MidiDispatcher: access (requestMIDIAccess was
                      \* granted), activeMidiInputId (0 is null), and
                      \* onmidimessage, the inputs that have its handler
  midiRequests,       \* the refreshMidiDeviceList invocations suspended at
                      \* `await navigator.requestMIDIAccess(...)`
  startupAwaits,      \* connectedCallback is suspended at `await
                      \* this.setSessionPrompts()`: the id of the invocation
                      \* whose promise it awaits, else 0
  midiInputs,         \* the keys of MIDIAccess.inputs: the devices plugged in
  stateChanges,       \* statechange events of MIDIAccess not yet delivered
  learnMode,          \* learnMode of the PromptController of each channel
  isRecording,        \* this.isRecording
  mediaRecorder,      \* this.mediaRecorder (0 is null, else a recorder id)
  recordedChunks,     \* this.recordedChunks: of each chunk, the recorder
  recordedAudioURL_WebM,  \* this.recordedAudioURL_WebM (0 is null)
  recordedAudioURL_WAV,   \* this.recordedAudioURL_WAV (0 is null)
  isConverting,       \* this.isConverting
  mediaRecorders,     \* the MediaRecorder objects created, by id
  objectURLs,         \* the URLs URL.createObjectURL made, by id: revoked?
  conversions,        \* the onstop handlers suspended at
                      \* `await this.convertWebMToWAV(webmBlob)`
  disconnected        \* disconnectedCallback ran

vars == << connected, prompts, filteredPrompts, playbackState, nextStartTime,
           connectionError, session, namedPresets, localStorage,
           activePresetName, timeSinceLastCall, lastResult, tasks, sessions, timers,
           currentTime, timeSinceLastPush, lastStarted, underrunAt,
           sinceErrorStop, promptKeys, exported, showMidi, midiInputIds,
           activeMidiInputId, midiDispatcher, midiRequests, startupAwaits,
           midiInputs, stateChanges,
           learnMode, isRecording, mediaRecorder, recordedChunks,
           recordedAudioURL_WebM, recordedAudioURL_WAV, isConverting,
           mediaRecorders, objectURLs, conversions, disconnected >>

\* The world a handler starts from: the state, and the logs of what the handler
\* does to the outside, empty: calls (the calls on a session object, in order),
\* started (the source.start() calls, in order) and toasts (the messages of
\* toastMessage.show, in order).
World ==
  [ connected |-> connected, prompts |-> prompts,
    filteredPrompts |-> filteredPrompts, playbackState |-> playbackState,
    nextStartTime |-> nextStartTime, connectionError |-> connectionError,
    session |-> session, namedPresets |-> namedPresets,
    localStorage |-> localStorage,
    activePresetName |-> activePresetName,
    timeSinceLastCall |-> timeSinceLastCall, lastResult |-> lastResult,
    tasks |-> tasks, sessions |-> sessions, timers |-> timers,
    currentTime |-> currentTime, calls |-> << >>, started |-> << >>,
    timeSinceLastPush |-> timeSinceLastPush, lastStarted |-> lastStarted,
    underrunAt |-> underrunAt, sinceErrorStop |-> sinceErrorStop,
    promptKeys |-> promptKeys, exported |-> exported, showMidi |-> showMidi,
    midiInputIds |-> midiInputIds, activeMidiInputId |-> activeMidiInputId,
    midiDispatcher |-> midiDispatcher, midiRequests |-> midiRequests,
    startupAwaits |-> startupAwaits, midiInputs |-> midiInputs,
    stateChanges |-> stateChanges, learnMode |-> learnMode,
    isRecording |-> isRecording, mediaRecorder |-> mediaRecorder,
    recordedChunks |-> recordedChunks,
    recordedAudioURL_WebM |-> recordedAudioURL_WebM,
    recordedAudioURL_WAV |-> recordedAudioURL_WAV,
    isConverting |-> isConverting, mediaRecorders |-> mediaRecorders,
    objectURLs |-> objectURLs, conversions |-> conversions,
    disconnected |-> disconnected, toasts |-> << >>, ok |-> TRUE ]

\* w.ok is FALSE when the handler ran into a bound of the model.
Commit(w) ==
  /\ w.ok
  /\ connected' = w.connected
  /\ prompts' = w.prompts
  /\ filteredPrompts' = w.filteredPrompts
  /\ playbackState' = w.playbackState
  /\ nextStartTime' = w.nextStartTime
  /\ connectionError' = w.connectionError
  /\ session' = w.session
  /\ namedPresets' = w.namedPresets
  /\ localStorage' = w.localStorage
  /\ activePresetName' = w.activePresetName
  /\ timeSinceLastCall' = w.timeSinceLastCall
  /\ lastResult' = w.lastResult
  /\ tasks' = w.tasks
  /\ sessions' = w.sessions
  /\ timers' = w.timers
  /\ currentTime' = w.currentTime
  /\ timeSinceLastPush' = w.timeSinceLastPush
  /\ lastStarted' = w.lastStarted
  /\ underrunAt' = w.underrunAt
  /\ sinceErrorStop' = w.sinceErrorStop
  /\ promptKeys' = w.promptKeys
  /\ exported' = w.exported
  /\ showMidi' = w.showMidi
  /\ midiInputIds' = w.midiInputIds
  /\ activeMidiInputId' = w.activeMidiInputId
  /\ midiDispatcher' = w.midiDispatcher
  /\ midiRequests' = w.midiRequests
  /\ startupAwaits' = w.startupAwaits
  /\ midiInputs' = w.midiInputs
  /\ stateChanges' = w.stateChanges
  /\ learnMode' = w.learnMode
  /\ isRecording' = w.isRecording
  /\ mediaRecorder' = w.mediaRecorder
  /\ recordedChunks' = w.recordedChunks
  /\ recordedAudioURL_WebM' = w.recordedAudioURL_WebM
  /\ recordedAudioURL_WAV' = w.recordedAudioURL_WAV
  /\ isConverting' = w.isConverting
  /\ mediaRecorders' = w.mediaRecorders
  /\ objectURLs' = w.objectURLs
  /\ conversions' = w.conversions
  /\ disconnected' = w.disconnected

\* ------------------------------------------------------------ helpers
Min(a, b) == IF a < b THEN a ELSE b

Unobserved == 0 - 1

\* what an observer holds after an observation, when it is kept
Observe(observer, value) == IF observer = Unobserved THEN Unobserved ELSE value

\* Map.prototype.set as a push that does not look for the key
mapSetAppends(keys, key) == Append(keys, key)

\* Map.prototype.set(key, ...), on the keys of the Map in insertion order: a
\* key the Map has keeps its place, a new key goes to the end
mapSet(keys, key) ==
  IF \E k \in 1 .. Len(keys) : keys[k] = key THEN keys ELSE Append(keys, key)

\* the keys of a Map filled by a set(key, ...) for each key of `list` in turn
RECURSIVE mapOf(_)
mapOf(list) ==
  IF list = << >> THEN << >>
  ELSE mapSet(mapOf(SubSeq(list, 1, Len(list) - 1)), list[Len(list)])

\* the keys of the Map buildDefaultPrompts() returns, and of the Maps that
\* getInitialPromptsFromStorage() and handleLoadPreset() fill by a set() for
\* each entry of it: defaultStructure.forEach(... set(promptId, ...))
buildDefaultKeys == mapOf(DefaultPromptIds)

\* Array.from(this.prompts.values()): the map in insertion order
PromptList(ps) == [k \in 1 .. NumChannels |-> ps[k - 1]]

TextsOf(list) == {list[k].text : k \in 1 .. Len(list)}

\* a task: one suspended invocation of an async function
\*   fn   the function, pc the await it is suspended at:
\*        "connect" (await ai.live.music.connect),
\*        "prompts" (await this.setSessionPrompts())
\*   sid  the session of the awaited connect()
\*   wait the id of the setSessionPrompts invocation whose promise is awaited
Task(id, fn, pc, sid, wait) ==
  [id |-> id, fn |-> fn, pc |-> pc, sid |-> sid, wait |-> wait]

TaskIds(w) == {w.tasks[k].id : k \in 1 .. Len(w.tasks)}

\* the invocation ids in use: of a suspended setSessionPrompts, awaited by a
\* suspended caller, or held by the throttle as lastResult
UsedIds(w) ==
  TaskIds(w) \cup {w.tasks[k].wait : k \in 1 .. Len(w.tasks)} \cup {w.lastResult}

\* the least id not in use (0 is no id)
FreshId(w) ==
  CHOOSE i \in 1 .. (2 * MaxTasks + 2) :
    /\ i \notin UsedIds(w)
    /\ \A j \in 1 .. (i - 1) : j \in UsedIds(w)

Suspend(w, t) ==
  IF Len(w.tasks) < MaxTasks
  THEN [w EXCEPT !.tasks = Append(@, t)]
  ELSE [w EXCEPT !.ok = FALSE]

RemoveAt(seq, k) == SubSeq(seq, 1, k - 1) \o SubSeq(seq, k + 1, Len(seq))

\* a call on a session object, as the far end sees it, with the channels, the
\* filtered set and the time since the latest push at the instant of the call
Call(w, op, arg) ==
  [w EXCEPT !.calls = Append(@, [op |-> op, sid |-> w.session, arg |-> arg,
                                 prompts |-> w.prompts,
                                 filteredPrompts |-> w.filteredPrompts,
                                 timeSinceLastPush |-> w.timeSinceLastPush])]

\* ------------------------- WeightKnob, PromptController: weight inputs
\* Weights are kept in units of 1/WeightUnit, which makes every step of the
\* inputs (0.01 and 0.02 per pixel, 0.0025 per wheel unit, 2/127 per CC value)
\* a whole number.

\* Math.max(0, Math.min(2, value)) left out
clampNothing(value) == value

\* Math.max(0, Math.min(2, value))
clamp(value) == IF value < 0 THEN 0 ELSE Min(2 * WeightUnit, value)

\* renderKnobs() shows the first half of the channels with displayMode="knob",
\* renderSliders() the second half with displayMode="slider"
displayMode(id) == IF 2 * id < NumChannels THEN "knob" ELSE "slider"

\* WeightKnob.handlePointerMove(e), delta = dragStartPos - e.clientY
handlePointerMove(dragStartValue, delta, mode) ==
  clamp(dragStartValue
        + delta * (IF mode = "slider" THEN WeightUnit \div 50
                                      ELSE WeightUnit \div 100))

\* WeightKnob.handleWheel(e), delta = e.deltaY
handleWheel(value, delta) == clamp(value - delta * (WeightUnit \div 400))

\* WeightKnob.handlePointerDown(e) in slider mode: the click on the track, at
\* relativeY from the top of a track of rect.height
handlePointerDown(relativeY, height) ==
  clamp(((height - relativeY) * 2 * WeightUnit) \div height)

\* PromptController.handleCCMessage(e): this.weight = (value / 127) * 2
handleCCMessage(value) == (value * 2 * WeightUnit) \div 127

\* ------------------------------------------- PromptDjMidi: the engine

\* getPromptsToSend() without the test of the filtered set
getPromptsToSendUnfiltered(w) ==
  LET keep(p) == p.weight > 0
  IN  SelectSeq(PromptList(w.prompts), keep)

\* private getPromptsToSend()
getPromptsToSend(w) ==
  LET keep(p) == p.text \notin w.filteredPrompts /\ p.weight > 0
  IN  SelectSeq(PromptList(w.prompts), keep)

\* pause() without its first line
pauseUnguarded(w) ==
  LET w1 == IF w.session # 0 THEN Call(w, "pause", << >>) ELSE w
  IN  [w1 EXCEPT !.playbackState = "paused", !.nextStartTime = 0]

\* private pause()
pause(w) ==
  IF w.playbackState # "playing" /\ w.playbackState # "loading"
  THEN w
  ELSE LET w1 == IF w.session # 0 THEN Call(w, "pause", << >>) ELSE w
       IN  [w1 EXCEPT !.playbackState = "paused", !.nextStartTime = 0]

\* stop() without `this.nextStartTime = 0`
stopKeepingClock(w) ==
  LET w1 == IF w.session # 0 THEN Call(w, "stop", << >>) ELSE w
  IN  [w1 EXCEPT !.playbackState = "stopped"]

\* private stop(isErrorStop)
stop(w) ==
  LET w1 == IF w.session # 0 THEN Call(w, "stop", << >>) ELSE w
  IN  [w1 EXCEPT !.playbackState = "stopped", !.nextStartTime = 0]

\* this.session.play(), the last statement of play()
sessionPlay(w) ==
  LET w1 == Call(w, "play", << >>)
  IN  IF w.session # 0
      THEN [w1 EXCEPT !.sessions[w.session].played = TRUE]
      ELSE w1

\* the far end of a session created by ai.live.music.connect()
\*   st     "connecting", "open", "failed" (the socket reported an error: a send
\*          on it throws) or "closed" (a send on it is dropped)
\*   setup  the setupComplete message was delivered
\*   played the far end was told to play
NewSession == [st |-> "connecting", setup |-> FALSE, played |-> FALSE]
FailedSession == [st |-> "failed", setup |-> FALSE, played |-> FALSE]
ClosedSession == [st |-> "closed", setup |-> FALSE, played |-> FALSE]

\* ------------------------------------------------------------- MIDI
\* MidiDispatcher.getMidiAccess(), with this.access set: the ids of
\* access.inputs, each input given the onmidimessage handler.  An input keeps
\* its handler while it is unplugged.
installHandlers(w) ==
  [w EXCEPT !.midiDispatcher.onmidimessage =
              @ \cup {w.midiInputs[k] : k \in 1 .. Len(w.midiInputs)}]

\* refreshMidiDeviceList(), after `await this.midiDispatcher.getMidiAccess()`
\* gave inputIds, keeping an active id that is gone
refreshedKeepsActive(w, inputIds) ==
  [w EXCEPT !.midiInputIds = inputIds,
            !.midiDispatcher.activeMidiInputId = w.activeMidiInputId]

\* refreshMidiDeviceList(), after `await this.midiDispatcher.getMidiAccess()`
\* gave inputIds
refreshed(w, inputIds) ==
  LET includes == \E k \in 1 .. Len(inputIds) : inputIds[k] = w.activeMidiInputId
      vanished == w.activeMidiInputId # 0 /\ ~includes
      newActiveId ==
        IF vanished THEN (IF Len(inputIds) > 0 THEN inputIds[1] ELSE 0)
        ELSE IF w.activeMidiInputId = 0 /\ Len(inputIds) > 0 THEN inputIds[1]
        ELSE IF Len(inputIds) = 0 THEN 0
        ELSE w.activeMidiInputId
      w1 == IF vanished
            THEN [w EXCEPT !.toasts =
                    Append(@, IF newActiveId # 0 THEN "MIDI changed"
                              ELSE "Active MIDI disconnected.")]
            ELSE w
  IN  [w1 EXCEPT !.midiInputIds = inputIds,
                 !.activeMidiInputId = newActiveId,
                 !.midiDispatcher.activeMidiInputId = newActiveId]

\* private async refreshMidiDeviceList().  getMidiAccess awaits
\* navigator.requestMIDIAccess while the dispatcher has no access; with access
\* it awaits nothing and the list is refreshed in the same task.
refreshMidiDeviceList(w) ==
  IF w.midiDispatcher.access THEN refreshed(installHandlers(w), w.midiInputs)
  ELSE IF w.midiRequests < MaxMidiRequests
       THEN [w EXCEPT !.midiRequests = @ + 1]
       ELSE [w EXCEPT !.ok = FALSE]

\* PromptController.update(): showCC turned off ends the learn mode
showCCOff(w) == [w EXCEPT !.learnMode = [id \in PromptIds |-> FALSE]]

\* requestMIDIAccess settles for one suspended refreshMidiDeviceList: granted,
\* the dispatcher keeps the access, sets its onstatechange and lists the
\* inputs; rejected, it dispatches midinotavailable (the listener of the
\* constructor hides the MIDI controls) and the list is empty
midiAccessSettles(w, granted) ==
  LET w1 == [w EXCEPT !.midiRequests = @ - 1]
  IN  IF granted
      THEN LET w2 == [w1 EXCEPT !.midiDispatcher.access = TRUE]
           IN  refreshed(installHandlers(w2), w2.midiInputs)
      ELSE refreshed(showCCOff([w1 EXCEPT !.toasts = Append(@, "MIDI not available"),
                                          !.showMidi = FALSE]),
                     << >>)

\* private async handleMidiDevicesChange()
handleMidiDevicesChange(w) ==
  refreshMidiDeviceList(
    [w EXCEPT !.toasts = Append(@, "MIDI devices changed. Refreshing...")])

\* private async toggleShowMidi()
toggleShowMidi(w) ==
  LET w1 == [w EXCEPT !.showMidi = ~@]
  IN  IF w1.showMidi /\ Len(w1.midiInputIds) = 0 THEN refreshMidiDeviceList(w1)
      ELSE IF ~w1.showMidi THEN showCCOff(w1)
      ELSE w1

\* private handleMidiInputChange(event), for the value of the option chosen
\* (0 is "")
handleMidiInputChange(w, newMidiId) ==
  LET w1 == [w EXCEPT !.activeMidiInputId = newMidiId,
                      !.midiDispatcher.activeMidiInputId = newMidiId]
  IN  IF newMidiId # 0 THEN [w1 EXCEPT !.toasts = Append(@, "MIDI set to")]
      ELSE w1

\* PromptController.toggleLearnMode()
toggleLearnMode(w, id) == [w EXCEPT !.learnMode[id] = ~@]

\* private async connectToSession(), up to `await ai.live.music.connect(...)`.
\* Its first line (session && !connectionError: getServerInfo) is never taken:
\* play() and setSessionPrompts call it only when connectionError is true, and
\* connectedCallback calls it before any session exists.
connectToSession(w, id, fn) ==
  IF Len(w.sessions) < MaxSessions
  THEN Suspend([w EXCEPT !.playbackState = "loading",
                         !.sessions = Append(@, NewSession)],
               Task(id, fn, "connect", Len(w.sessions) + 1, 0))
  ELSE [w EXCEPT !.ok = FALSE]

\* the promise of invocation id of setSessionPrompts settles: the throttle's
\* lastResult is now a settled promise, and every play() and connectedCallback
\* awaiting it resumes, in the order they suspended
RECURSIVE ResumeWaiters(_, _)
ResumeWaiters(w, waiters) ==
  IF waiters = << >> THEN w
  ELSE ResumeWaiters(IF Head(waiters).fn = "play" THEN sessionPlay(w) ELSE w,
                     Tail(waiters))

Settle(w, id) ==
  LET awaits(t) == t.pc = "prompts" /\ t.wait = id
      others(t) == ~awaits(t)
      w1 == [w EXCEPT !.lastResult = IF @ = id THEN 0 ELSE @,
                      !.tasks = SelectSeq(@, others)]
      w2 == ResumeWaiters(w1, SelectSeq(w.tasks, awaits))
  IN  IF w2.startupAwaits = id
      THEN refreshMidiDeviceList([w2 EXCEPT !.startupAwaits = 0])
      ELSE w2

\* setSessionPrompts, the throttled function, from
\* `const promptsToSend = this.getPromptsToSend()` to its end.  The SDK's
\* setWeightedPrompts sends on the socket and awaits nothing, so the await of
\* its promise resumes in a microtask of the same task: with the filtered set
\* cut down to the texts just pushed, or in the catch clause when the send
\* threw.  id is the invocation's id when it was suspended before, 0 when it
\* has run synchronously so far.
pushPrompts(w, id) ==
  LET promptsToSend == getPromptsToSend(w)
      active == w.playbackState = "playing" \/ w.playbackState = "loading"
      done(x) == IF id = 0 THEN x ELSE Settle(x, id)
  IN  IF Len(promptsToSend) = 0 /\ active THEN done(pause(w))
      ELSE IF ~active THEN done(w)
      ELSE IF w.session = 0 \/ w.connectionError THEN done(w)
      ELSE LET w1 == Call(w, "setWeightedPrompts", promptsToSend)
               w2 == [w1 EXCEPT !.timeSinceLastPush = Observe(@, 0)]
               currentActiveTexts == TextsOf(promptsToSend)
           IN  IF w.sessions[w.session].st = "failed"
               THEN done(pause(w2))
               ELSE done([w2 EXCEPT !.filteredPrompts =
                            {fp \in @ : fp \in currentActiveTexts}])

\* setSessionPrompts from its first line, reconnecting in every state
setSessionPromptsBodyEager(w) ==
  IF w.connectionError
  THEN connectToSession(w, FreshId(w), "setSessionPrompts")
  ELSE pushPrompts(w, 0)

\* setSessionPrompts, the throttled function, from its first line
setSessionPromptsBody(w) ==
  IF w.connectionError
     /\ (w.playbackState = "playing" \/ w.playbackState = "loading")
  THEN connectToSession(w, FreshId(w), "setSessionPrompts")
  ELSE pushPrompts(w, 0)

\* ... after `await this.connectToSession()`
setSessionPromptsReconnected(w, id) ==
  IF w.connectionError THEN Settle(pause(w), id) ELSE pushPrompts(w, id)

\* throttle(func, 200) applied to setSessionPrompts: the call runs func when
\* at least `delay` has passed since the last call that ran it, and returns
\* lastResult.  lastResult is 0 for undefined or a settled promise, else the
\* id of the invocation whose promise is pending.
setSessionPrompts(w) ==
  IF w.timeSinceLastCall >= ThrottleDelay
  THEN LET r == setSessionPromptsBody(w)
           suspended == Len(r.tasks) > Len(w.tasks)
       IN  [r EXCEPT !.lastResult =
                        IF suspended THEN r.tasks[Len(r.tasks)].id ELSE 0,
                     !.timeSinceLastCall = 0]
  ELSE w

\* `await this.setSessionPrompts()` in fn: suspend when the promise returned
\* is pending, else go on at once.  What connectedCallback does after the await
\* (updateAudioLevel, refreshMidiDeviceList) reads and writes none of the
\* engine's state, so its wait is not kept as a task but in startupAwaits.
awaitSetSessionPrompts(w, fn) ==
  LET r == setSessionPrompts(w)
  IN  IF fn = "connectedCallback"
      THEN IF r.lastResult # 0 THEN [r EXCEPT !.startupAwaits = r.lastResult]
           ELSE refreshMidiDeviceList(r)
      ELSE IF r.lastResult # 0
           THEN Suspend(r, Task(0, fn, "prompts", 0, r.lastResult))
           ELSE sessionPlay(r)

\* private async play(), from `const promptsToSend = this.getPromptsToSend()`
playPrompts(w) ==
  IF Len(getPromptsToSend(w)) = 0
  THEN [w EXCEPT !.playbackState = "paused"]
  ELSE awaitSetSessionPrompts([w EXCEPT !.playbackState = "loading"], "play")

\* private async play(), after `await this.connectToSession()`
playReconnected(w) ==
  IF w.connectionError
  THEN [w EXCEPT !.playbackState = "stopped"]
  ELSE playPrompts(w)

\* private async play().  The audio context is running: handlePlayPause has
\* awaited its resume.
play(w) ==
  LET w1 == [w EXCEPT !.sinceErrorStop = Observe(@, 0)]
  IN  IF w1.connectionError THEN connectToSession(w1, 0, "play")
      ELSE playPrompts(w1)

\* private async handlePlayPause()
handlePlayPause(w) ==
  CASE w.playbackState = "playing" -> pause(w)
    [] w.playbackState \in {"paused", "stopped"} -> play(w)
    [] w.playbackState = "loading" -> stop(w)

\* the caller of connectToSession() goes on after it returned
afterConnectToSession(w, t) ==
  CASE t.fn = "connectedCallback" -> awaitSetSessionPrompts(w, "connectedCallback")
    [] t.fn = "play" -> playReconnected(w)
    [] t.fn = "setSessionPrompts" -> setSessionPromptsReconnected(w, t.id)

\* private setLastActivePromptsToLocalStorage(promptsToSave)
setLastActivePromptsToLocalStorage(w, promptsToSave) ==
  [w EXCEPT !.localStorage.promptDjLastActivePrompts = PromptList(promptsToSave)]

\* private setPrompts(newPrompts)
setPrompts(w, newPrompts) ==
  setSessionPrompts(
    setLastActivePromptsToLocalStorage([w EXCEPT !.prompts = newPrompts],
                                       newPrompts))

\* private handlePromptChanged(e)
handlePromptChanged(w, changedPrompt) ==
  IF changedPrompt.promptId \notin DOMAIN w.prompts THEN w
  ELSE LET prompt == w.prompts[changedPrompt.promptId]
           updatedPrompt == [prompt EXCEPT !.text = changedPrompt.text,
                                           !.weight = changedPrompt.weight,
                                           !.cc = changedPrompt.cc]
           \* new Map(this.prompts), then set(prompt.promptId, updatedPrompt)
           newPrompts ==
             [id \in DOMAIN w.prompts \cup {prompt.promptId} |->
                IF id = prompt.promptId THEN updatedPrompt ELSE w.prompts[id]]
           newKeys == mapSet(w.promptKeys, prompt.promptId)
       IN  setPrompts([w EXCEPT !.promptKeys = newKeys], newPrompts)

\* textContent?.trim(), for the texts of the model
trim(textContent) == IF textContent \in BlankTexts THEN "" ELSE textContent

\* updateText() as a handler that takes every text
updateTextUnchecked(w, id, textContent) ==
  handlePromptChanged(w, [w.prompts[id] EXCEPT !.text = trim(textContent)])

\* PromptController.updateText() of the channel id, whose text field holds
\* textContent, and the prompt-changed event it dispatches
updateText(w, id, textContent) ==
  LET newText == trim(textContent)
      text == IF newText = "" THEN w.prompts[id].text ELSE newText
  IN  handlePromptChanged(w, [w.prompts[id] EXCEPT !.text = text])

\* handleLoadPreset(event) as a handler that lays the preset over the live
\* channels
handleLoadPresetOverLive(w, name) ==
  LET found == {k \in 1 .. Len(w.namedPresets) : w.namedPresets[k].name = name}
  IN  IF name = "" \/ found = {} THEN [w EXCEPT !.activePresetName = ""]
      ELSE
        LET preset == w.namedPresets[CHOOSE k \in found : \A j \in found : k <= j]
            at(id) == {k \in 1 .. Len(preset.prompts) :
                         preset.prompts[k].promptId = id}
            loaded(id) == preset.prompts[CHOOSE k \in at(id) :
                                           \A j \in at(id) : j <= k]
            newPromptsMap ==
              [id \in PromptIds |->
                 IF at(id) # {} THEN loaded(id) ELSE w.prompts[id]]
            w1 == setPrompts([w EXCEPT !.promptKeys = buildDefaultKeys],
                             newPromptsMap)
        IN  setSessionPrompts([w1 EXCEPT !.activePresetName = name,
                                         !.filteredPrompts = {}])

\* private handleLoadPreset(event), for a name of the select's options
handleLoadPreset(w, name) ==
  IF name = "" THEN [w EXCEPT !.activePresetName = ""]
  ELSE
    LET found == {k \in 1 .. Len(w.namedPresets) : w.namedPresets[k].name = name}
    IN  IF found = {} THEN [w EXCEPT !.activePresetName = ""]
        ELSE
          LET preset == w.namedPresets[CHOOSE k \in found : \A j \in found : k <= j]
              \* new Map(preset.prompts.map(p => [p.promptId, p])): last one wins
              at(id) == {k \in 1 .. Len(preset.prompts) :
                           preset.prompts[k].promptId = id}
              loaded(id) == preset.prompts[CHOOSE k \in at(id) :
                                             \A j \in at(id) : j <= k]
              newPromptsMap ==
                [id \in PromptIds |->
                   IF at(id) # {}
                   THEN loaded(id)   \* {...defaultPrompt, ...loadedPromptData}
                   ELSE [buildDefaultPrompts[id] EXCEPT !.weight = 0]]
              w1 == setPrompts([w EXCEPT !.promptKeys = buildDefaultKeys],
                               newPromptsMap)
              w2 == [w1 EXCEPT !.activePresetName = name,
                               !.filteredPrompts = {}]
          IN  setSessionPrompts(w2)

\* a.name.localeCompare(b.name) < 0, for the names of the model
NameOrder == << "A", "B", "C", "current-knobs", "D" >>

NameBefore(a, b) ==
  \E i, j \in 1 .. Len(NameOrder) :
    NameOrder[i] = a /\ NameOrder[j] = b /\ i < j

\* this.namedPresets.sort((a, b) => a.name.localeCompare(b.name)): the sort
\* is stable
RECURSIVE sortByName(_)
sortByName(presets) ==
  IF presets = << >> THEN << >>
  ELSE LET n == Len(presets)
           last == presets[n]
           sorted == sortByName(SubSeq(presets, 1, n - 1))
           \* last goes behind every preset that does not sort after it
           behind == {k \in 1 .. Len(sorted) : NameBefore(last.name, sorted[k].name)}
           at == IF behind = {} THEN Len(sorted) + 1
                 ELSE CHOOSE k \in behind : \A j \in behind : k <= j
       IN  SubSeq(sorted, 1, at - 1) \o << last >>
             \o SubSeq(sorted, at, Len(sorted))

\* private savePresetsToStorage()
savePresetsToStorage(w) ==
  [w EXCEPT !.localStorage.promptDjNamedPresets = w.namedPresets]

\* JSON.stringify of a prompt, as JSON.parse reads it back: a number that is
\* not finite is written as null
stringify(p) ==
  [promptId |-> p.promptId, text |-> p.text, weight |-> p.weight, cc |-> p.cc,
   color |-> p.color,
   has |-> IF p.weight = Infinity THEN PromptFields \ {"weight"} ELSE PromptFields]

\* private handleExportKnobs(): the file it downloads takes the place of the
\* one downloaded before
handleExportKnobs(w) ==
  LET name == IF w.activePresetName = "" THEN "current-knobs"
              ELSE w.activePresetName
      list == PromptList(w.prompts)
      file == [fileName |-> name, top |-> "prompts", name |-> name,
               isFavorite |-> FALSE,
               prompts |-> [k \in 1 .. Len(list) |-> stringify(list[k])]]
  IN  [w EXCEPT !.exported = << file >>, !.toasts = Append(@, "Exported")]

\* ... without the tests of the top level and of the entries
readPresetFileUnchecked(file) ==
  [throws |-> FALSE,
   importedPromptsArray |-> file.prompts,
   suggestedName |-> IF file.top = "prompts" /\ file.name # ""
                     THEN file.name ELSE file.fileName,
   isFavorite |-> file.top = "prompts" /\ file.isFavorite]

\* handleImportPreset, from JSON.parse(fileContent) to the test of the
\* entries: what the file gives, or that the handler throws
readPresetFile(file) ==
  LET \* p.promptId && p.text != null && p.weight != null && p.cc != null
      \*   && p.color != null
      valid(p) == p.has = PromptFields
      every == \A k \in 1 .. Len(file.prompts) : valid(file.prompts[k])
  IN  [throws |-> file.top = "other" \/ ~every,
       importedPromptsArray |-> file.prompts,
       suggestedName |-> IF file.top = "prompts" /\ file.name # ""
                         THEN file.name ELSE file.fileName,
       isFavorite |-> file.top = "prompts" /\ file.isFavorite]

\* handleImportPreset, importedPForThisSlot of the slot of defaultP.promptId =
\* id (index = id): the index of the entry in importedPromptsArray, 0 for
\* undefined
importedPForThisSlot(importedPromptsArray, id) ==
  LET n == Len(importedPromptsArray)
      found == {k \in 1 .. n : importedPromptsArray[k].promptId = id}
  IN  \* find(ip => ip.promptId === defaultP.promptId) ||
      \*   (index < importedPromptsArray.length ? importedPromptsArray[index] : undefined)
      IF found # {} THEN CHOOSE k \in found : \A j \in found : k <= j
      ELSE IF id < n THEN id + 1 ELSE 0

\* private async handleImportPreset(event), for a file whose text is JSON;
\* `answer` is what the user answers to prompt(): "suggested" for the name it
\* suggests, "" for Cancel, else a name; `overwrite` is what the user answers
\* to confirm()
handleImportPreset(w, file, answer, overwrite) ==
  LET read == readPresetFile(file)
      importedPromptsArray == read.importedPromptsArray
      name == IF answer = "suggested" THEN read.suggestedName ELSE answer
      slot(id) == importedPForThisSlot(importedPromptsArray, id)
      final(id) ==
        IF slot(id) # 0
        THEN LET ip == importedPromptsArray[slot(id)]
             IN  [buildDefaultPrompts[id] EXCEPT
                    !.text = ip.text, !.weight = ip.weight, !.cc = ip.cc,
                    !.color = IF ip.color = "" THEN @ ELSE ip.color]
        ELSE [buildDefaultPrompts[id] EXCEPT !.weight = 0]
      newPreset == [name |-> name, prompts |-> PromptList([id \in PromptIds |-> final(id)]),
                    isFavorite |-> read.isFavorite]
      existing == {k \in 1 .. Len(w.namedPresets) : w.namedPresets[k].name = name}
      existingPresetIndex == CHOOSE k \in existing : \A j \in existing : k <= j
      stored(presets) ==
        LET w1 == savePresetsToStorage([w EXCEPT !.namedPresets = sortByName(presets)])
        IN  [w1 EXCEPT !.toasts = Append(@, "Preset imported")]
  IN  IF read.throws THEN [w EXCEPT !.toasts = Append(@, "Error importing")]
      ELSE IF name = "" THEN w
      ELSE IF existing # {}
           THEN IF ~overwrite THEN w
                ELSE stored([w.namedPresets EXCEPT ![existingPresetIndex] = newPreset])
           ELSE stored(Append(w.namedPresets, newPreset))

\* handleSavePresetAs() as a handler that pushes the preset whether or not
\* the name is taken
handleSavePresetAsPushes(w, name, overwrite) ==
  IF name = "" THEN w
  ELSE
    LET newPreset == [name |-> name, prompts |-> PromptList(w.prompts),
                      isFavorite |-> FALSE]
        w1 == savePresetsToStorage(
                [w EXCEPT !.namedPresets = sortByName(Append(@, newPreset)),
                          !.activePresetName = name])
    IN  [w1 EXCEPT !.toasts = Append(@, "Preset saved")]

\* private handleSavePresetAs(); `name` is what the user answers to prompt()
\* ("" for Cancel or an empty name), `overwrite` what the user answers to
\* confirm()
handleSavePresetAs(w, name, overwrite) ==
  IF name = "" THEN w
  ELSE
    LET newPreset == [name |-> name, prompts |-> PromptList(w.prompts),
                      isFavorite |-> FALSE]
        existing == {k \in 1 .. Len(w.namedPresets) : w.namedPresets[k].name = name}
        existingPresetIndex == CHOOSE k \in existing : \A j \in existing : k <= j
        stored(presets) ==
          LET w1 == savePresetsToStorage(
                      [w EXCEPT !.namedPresets = sortByName(presets),
                                !.activePresetName = name])
          IN  [w1 EXCEPT !.toasts = Append(@, "Preset saved")]
    IN  IF existing # {}
        THEN IF ~overwrite THEN w
             ELSE stored([w.namedPresets EXCEPT ![existingPresetIndex] = newPreset])
        ELSE stored(Append(w.namedPresets, newPreset))

\* private handleSaveCurrentPreset(); `name` and `overwrite` are the answers
\* handleSavePresetAs() gets when there is no active preset
handleSaveCurrentPreset(w, name, overwrite) ==
  IF w.activePresetName = "" THEN handleSavePresetAs(w, name, overwrite)
  ELSE
    LET found == {k \in 1 .. Len(w.namedPresets) :
                    w.namedPresets[k].name = w.activePresetName}
        presetIndex == CHOOSE k \in found : \A j \in found : k <= j
    IN  IF found = {}
        THEN [w EXCEPT !.toasts = Append(@, "Active preset not found"),
                       !.activePresetName = ""]
        ELSE LET w1 == savePresetsToStorage(
                         [w EXCEPT !.namedPresets[presetIndex].prompts =
                                      PromptList(w.prompts)])
             IN  [w1 EXCEPT !.toasts = Append(@, "Preset updated")]

\* private handleDeleteCurrentPreset(); `confirmed` is what the user answers
\* to confirm()
handleDeleteCurrentPreset(w, confirmed) ==
  IF w.activePresetName = ""
  THEN [w EXCEPT !.toasts = Append(@, "No active preset to delete.")]
  ELSE IF ~confirmed THEN w
  ELSE
    LET kept(p) == p.name # w.activePresetName
        w1 == savePresetsToStorage(
                [w EXCEPT !.namedPresets = SelectSeq(@, kept),
                          !.activePresetName = ""])
    IN  [w1 EXCEPT !.toasts = Append(@, "Preset deleted")]

\* private handleToggleFavorite()
handleToggleFavorite(w) ==
  LET found == {k \in 1 .. Len(w.namedPresets) :
                  w.namedPresets[k].name = w.activePresetName}
      k == CHOOSE i \in found : \A j \in found : i <= j
  IN  IF w.activePresetName = "" \/ found = {} THEN w
      ELSE LET w1 == savePresetsToStorage(
                       [w EXCEPT !.namedPresets[k].isFavorite = ~@])
           IN  [w1 EXCEPT !.toasts = Append(@, "favorite")]

\* private resetAllKnobsToDefault(), the confirm() accepted
resetAllKnobsToDefault(w) ==
  LET w1 == setPrompts([w EXCEPT !.promptKeys = buildDefaultKeys],
                       buildDefaultPrompts)
  IN  [w1 EXCEPT !.activePresetName = "", !.filteredPrompts = {}]

\* ------------------------------------------------------- the recorder
\* A MediaRecorder is a record of its state ("recording" or "inactive") and
\* of `ending`: stop() has queued the task that fires dataavailable and stop.
\* A URL made by URL.createObjectURL is "live" until it is revoked.

\* URL.revokeObjectURL(url), guarded by `if (url)`
revokeObjectURL(w, url) ==
  IF url = 0 THEN w ELSE [w EXCEPT !.objectURLs[url] = "revoked"]

\* URL.createObjectURL(blob): the new URL is the last of w.objectURLs
createObjectURL(w) ==
  IF Len(w.objectURLs) < MaxURLs
  THEN [w EXCEPT !.objectURLs = Append(@, "live")]
  ELSE [w EXCEPT !.objectURLs = Append(@, "live"), !.ok = FALSE]

\* MediaRecorder.stop() on a recorder that is recording
recorderStop(w, rec) ==
  [w EXCEPT !.mediaRecorders[rec] = [state |-> "inactive", ending |-> TRUE]]

\* private startIndependentRecording(); `supported` is whether
\* new MediaRecorder(...) returns (else it throws).  this.streamDestination is
\* set by the constructor and never cleared.
startIndependentRecording(w, supported) ==
  LET w1 == revokeObjectURL(revokeObjectURL(w, w.recordedAudioURL_WebM),
                            w.recordedAudioURL_WAV)
      w2 == [w1 EXCEPT !.recordedAudioURL_WebM = 0,
                       !.recordedAudioURL_WAV = 0,
                       !.recordedChunks = << >>,
                       !.isConverting = FALSE]
  IN  IF ~supported
      THEN [w2 EXCEPT !.toasts = Append(@, "Recording setup failed")]
      ELSE [w2 EXCEPT
              !.mediaRecorders =
                 Append(@, [state |-> "recording", ending |-> FALSE]),
              !.mediaRecorder = Len(w.mediaRecorders) + 1,
              !.isRecording = TRUE,
              !.toasts = Append(@, "Recording started..."),
              !.ok = @ /\ Len(w.mediaRecorders) < MaxRecorders]

\* private stopIndependentRecording()
stopIndependentRecording(w) ==
  IF w.mediaRecorder # 0 /\ w.mediaRecorders[w.mediaRecorder].state = "recording"
  THEN recorderStop(w, w.mediaRecorder)
  ELSE [w EXCEPT !.isRecording = FALSE, !.isConverting = FALSE,
                 !.toasts = Append(@, "Recording was not active or already stopped.")]

\* private handleToggleRecording()
handleToggleRecording(w, supported) ==
  IF w.isRecording THEN stopIndependentRecording(w)
  ELSE startIndependentRecording(w, supported)

\* mediaRecorder.ondataavailable of recorder rec, for data of `size` bytes
ondataavailable(w, rec, size) ==
  IF size > 0 THEN [w EXCEPT !.recordedChunks = Append(@, rec)] ELSE w

\* mediaRecorder.onstop of recorder rec, to `await this.convertWebMToWAV(...)`
\* or, with no chunk, to its end
onstop(w, rec) ==
  IF Len(w.recordedChunks) > 0
  THEN LET w1 == createObjectURL(revokeObjectURL(w, w.recordedAudioURL_WebM))
       IN  [w1 EXCEPT !.recordedAudioURL_WebM = Len(w1.objectURLs),
                      !.toasts = Append(@, "WebM recording finished. Converting to WAV..."),
                      !.isConverting = TRUE,
                      !.recordedAudioURL_WAV = 0,
                      !.conversions = Append(@, rec)]
  ELSE LET w1 == revokeObjectURL(revokeObjectURL(w, w.recordedAudioURL_WebM),
                                 w.recordedAudioURL_WAV)
       IN  [w1 EXCEPT !.recordedAudioURL_WebM = 0,
                      !.recordedAudioURL_WAV = 0,
                      !.toasts = Append(@, "Recording stopped. No audio data captured."),
                      !.isRecording = FALSE]

\* onstop after the await, as a handler that drops both URLs when the
\* conversion failed
afterConvertDropsBoth(w, converted) ==
  LET w1 == IF converted
            THEN LET w2 == createObjectURL(revokeObjectURL(w, w.recordedAudioURL_WAV))
                 IN  [w2 EXCEPT !.recordedAudioURL_WAV = Len(w2.objectURLs)]
            ELSE [revokeObjectURL(w, w.recordedAudioURL_WebM) EXCEPT
                    !.recordedAudioURL_WebM = 0, !.recordedAudioURL_WAV = 0]
  IN  [w1 EXCEPT !.isConverting = FALSE, !.isRecording = FALSE]

\* mediaRecorder.onstop after `await this.convertWebMToWAV(webmBlob)`:
\* `converted` is whether the promise was fulfilled (else convertWebMToWAV
\* threw); then the finally clause and the end of the handler
afterConvert(w, converted) ==
  LET w1 == IF converted
            THEN LET w2 == createObjectURL(revokeObjectURL(w, w.recordedAudioURL_WAV))
                 IN  [w2 EXCEPT !.recordedAudioURL_WAV = Len(w2.objectURLs),
                                !.toasts = Append(@, "Conversion to WAV complete. Downloads ready.")]
            ELSE [w EXCEPT !.toasts = Append(@, "WAV conversion failed"),
                           !.recordedAudioURL_WAV = 0]
  IN  [w1 EXCEPT !.isConverting = FALSE, !.isRecording = FALSE]

\* mediaRecorder.onerror
onRecorderError(w) ==
  LET w1 == revokeObjectURL(revokeObjectURL(w, w.recordedAudioURL_WebM),
                            w.recordedAudioURL_WAV)
  IN  [w1 EXCEPT !.toasts = Append(@, "Recording error"),
                 !.isRecording = FALSE,
                 !.isConverting = FALSE,
                 !.recordedAudioURL_WebM = 0,
                 !.recordedAudioURL_WAV = 0,
                 !.recordedChunks = << >>]

\* override disconnectedCallback().  The URLs are revoked, the fields keep
\* them.
disconnectedCallback(w) ==
  LET w1 == IF w.session # 0 THEN Call(w, "close", << >>) ELSE w
      w2 == IF /\ w1.isRecording
               /\ w1.mediaRecorder # 0
               /\ w1.mediaRecorders[w1.mediaRecorder].state = "recording"
            THEN recorderStop(w1, w1.mediaRecorder)
            ELSE w1
      w3 == revokeObjectURL(revokeObjectURL(w2, w2.recordedAudioURL_WebM),
                            w2.recordedAudioURL_WAV)
  IN  [w3 EXCEPT !.disconnected = TRUE]

\* ---------------------------------- the callbacks given to connect()

\* onmessage, e.setupComplete, without the pause
onSetupCompleteKeepsState(w) == [w EXCEPT !.connectionError = FALSE]

\* onmessage, e.setupComplete
onSetupComplete(w) ==
  LET w1 == [w EXCEPT !.connectionError = FALSE]
      n == Len(getPromptsToSend(w1))
  IN  IF w1.playbackState = "loading" /\ n > 0 THEN w1
      ELSE IF w1.playbackState # "paused" /\ w1.playbackState # "stopped" /\ n = 0
           THEN pause(w1)
           ELSE w1

\* onmessage, e.filteredPrompt, as a handler that also turns the channel down
onFilteredPromptTurnsDown(w, text) ==
  [w EXCEPT !.filteredPrompts = @ \cup {text},
            !.prompts = [id \in PromptIds |->
                           IF w.prompts[id].text = text
                           THEN [w.prompts[id] EXCEPT !.weight = 0]
                           ELSE w.prompts[id]]]

\* onmessage, e.filteredPrompt
onFilteredPrompt(w, text) ==
  [w EXCEPT !.filteredPrompts = @ \cup {text}]

\* the chunk handler after its first line, without the underrun branch
scheduleChunkStale(w, duration) ==
  LET w1 == IF w.nextStartTime = 0
            THEN IF Len(w.timers) < MaxTimers
                 THEN [w EXCEPT !.nextStartTime = w.currentTime + bufferTime,
                                !.timers = Append(@, w.currentTime + bufferTime)]
                 ELSE [w EXCEPT !.ok = FALSE]
            ELSE w
  IN  [w1 EXCEPT !.started = Append(@, [at |-> w1.nextStartTime,
                                        duration |-> duration,
                                        after |-> w.lastStarted]),
                 !.lastStarted = Observe(@, w1.nextStartTime),
                 !.nextStartTime = w1.nextStartTime + duration,
                 !.ok = @ /\ w1.nextStartTime + duration <= MaxNextStart]

\* onmessage, e.serverContent.audioChunks, after its first line: a chunk whose
\* decoded buffer lasts `duration` is scheduled.  decodeAudioData
\* (src/utils.ts) awaits nothing, so the handler resumes in a microtask of the
\* same task.
scheduleChunk(w, duration) ==
  LET w1 == IF w.nextStartTime = 0
            THEN IF Len(w.timers) < MaxTimers
                 THEN [w EXCEPT !.nextStartTime = w.currentTime + bufferTime,
                                !.timers = Append(@, w.currentTime + bufferTime)]
                 ELSE [w EXCEPT !.ok = FALSE]
            ELSE w
      w2 == IF w1.nextStartTime < w1.currentTime
            THEN [w1 EXCEPT !.playbackState = "loading",
                            !.nextStartTime = w1.currentTime + bufferTime,
                            !.underrunAt = Observe(@, w1.currentTime)]
            ELSE w1
  IN  [w2 EXCEPT !.started = Append(@, [at |-> w2.nextStartTime,
                                        duration |-> duration,
                                        after |-> w.lastStarted]),
                 !.lastStarted = Observe(@, w2.nextStartTime),
                 !.nextStartTime = w2.nextStartTime + duration,
                 !.ok = @ /\ w2.nextStartTime + duration <= MaxNextStart]

\* the chunk handler without its first line
onAudioChunkUnguarded(w, duration) == scheduleChunk(w, duration)

\* onmessage, e.serverContent.audioChunks
onAudioChunk(w, duration) ==
  IF w.playbackState = "paused" \/ w.playbackState = "stopped" THEN w
  ELSE scheduleChunk(w, duration)

\* the setTimeout callback without its test of the state
onBufferTimerUnguarded(w) == [w EXCEPT !.playbackState = "playing"]

\* the setTimeout callback armed by the first chunk of a buffering window
onBufferTimer(w) ==
  IF w.playbackState = "loading" THEN [w EXCEPT !.playbackState = "playing"]
  ELSE w

\* onerror
onerror(w) ==
  stop([w EXCEPT !.connectionError = TRUE, !.sinceErrorStop = Observe(@, 1)])

\* onclose
onclose(w) ==
  stop([w EXCEPT !.connectionError = TRUE, !.sinceErrorStop = Observe(@, 1)])

\* connectToSession(), the catch clause
connectFailed(w) ==
  [w EXCEPT !.connectionError = TRUE, !.playbackState = "stopped"]

\* function getInitialPromptsFromStorage(), for a stored array of prompts
\* (the empty array when nothing is stored)
getInitialPromptsFromStorage(stored) ==
  LET at(id) == {k \in 1 .. Len(stored) : stored[k].promptId = id}
      storedP(id) == stored[CHOOSE k \in at(id) : \A j \in at(id) : j <= k]
  IN  IF stored = << >> THEN buildDefaultPrompts
      ELSE [id \in PromptIds |->
              IF at(id) # {}
              THEN [promptId |-> id, text |-> storedP(id).text,
                    weight |-> storedP(id).weight, cc |-> storedP(id).cc,
                    color |-> storedP(id).color]
              ELSE buildDefaultPrompts[id]]

\* ------------------------------------------------------ initial state

\* a preset saved in an earlier visit
StoredPreset ==
  [name |-> "A",
   prompts |-> << [buildDefaultPrompts[0] EXCEPT !.weight = (3 * WeightUnit) \div 2] >>,
   isFavorite |-> FALSE]

\* window.localStorage of a first visit, and of a visit after a session in
\* which channel 0 was turned up
EmptyStorage ==
  [promptDjLastActivePrompts |-> << >>, promptDjNamedPresets |-> << >>]

UsedStorage ==
  [promptDjLastActivePrompts |->
     PromptList([buildDefaultPrompts EXCEPT ![0].weight = (3 * WeightUnit) \div 2]),
   promptDjNamedPresets |-> << StoredPreset >>]

\* main(): getInitialPromptsFromStorage(), then new PromptDjMidi(...)
InitFrom(storages, onPushes, onStarts, onUnderruns, onErrorStops) ==
  /\ connected = FALSE
  /\ localStorage \in storages
  /\ prompts = getInitialPromptsFromStorage(localStorage.promptDjLastActivePrompts)
  /\ promptKeys = buildDefaultKeys
  /\ exported = << >>
  /\ showMidi = FALSE
  /\ midiInputIds = << >>
  /\ activeMidiInputId = 0
  /\ midiDispatcher =
       [access |-> FALSE, activeMidiInputId |-> 0, onmidimessage |-> {}]
  /\ midiRequests = 0
  /\ startupAwaits = 0
  /\ midiInputs = << >>
  /\ stateChanges = 0
  /\ learnMode = [id \in PromptIds |-> FALSE]
  /\ isRecording = FALSE
  /\ mediaRecorder = 0
  /\ recordedChunks = << >>
  /\ recordedAudioURL_WebM = 0
  /\ recordedAudioURL_WAV = 0
  /\ isConverting = FALSE
  /\ mediaRecorders = << >>
  /\ objectURLs = << >>
  /\ conversions = << >>
  /\ disconnected = FALSE
  /\ filteredPrompts = {}
  /\ playbackState = "stopped"
  /\ nextStartTime = 0
  /\ connectionError = TRUE
  /\ session = 0
  /\ namedPresets = << >>
  /\ activePresetName = ""
  /\ timeSinceLastCall = ThrottleDelay    \* lastCall = -Infinity
  /\ lastResult = 0
  /\ tasks = << >>
  /\ sessions = << >>
  /\ timers = << >>
  /\ currentTime = 0
  /\ timeSinceLastPush = onPushes
  /\ lastStarted = onStarts
  /\ underrunAt = onUnderruns
  /\ sinceErrorStop = onErrorStops

Init ==
  InitFrom({EmptyStorage, UsedStorage}, Unobserved, Unobserved, Unobserved,
           Unobserved)

\* ... with the observers on the far end and on the engine
InitPushes ==
  InitFrom({EmptyStorage, UsedStorage}, ThrottleDelay, Unobserved, Unobserved, 0)

\* ... with the observer on the audio output
InitAudio ==
  InitFrom({EmptyStorage, UsedStorage}, Unobserved, 0, Unobserved, Unobserved)

\* ... with the observer on the toast
InitAudioLive ==
  InitFrom({EmptyStorage, UsedStorage}, Unobserved, Unobserved, 0, Unobserved)

\* ------------------------------------------------------------ actions
\* For every event, the set of worlds its handler can leave, one for each
\* input of the event, and the action that takes one of them.

\* override async connectedCallback(): loadPresetsFromStorage(), then
\* `await this.connectToSession()`
ConnectedCallbackSteps ==
  IF connected THEN {}
  ELSE {connectToSession(
          [World EXCEPT !.connected = TRUE,
                        !.namedPresets = localStorage.promptDjNamedPresets],
          0, "connectedCallback")}

ConnectedCallback == \E r \in ConnectedCallbackSteps : Commit(r)

\* PromptController.updateWeight(): the knob or slider of a channel moved, and
\* the prompt-changed event reaches handlePromptChanged
WeightChangedSteps ==
  LET edits == {e \in PromptIds \X Weights : e[2] # prompts[e[1]].weight}
  IN  IF ~connected THEN {}
      ELSE {handlePromptChanged(World, [prompts[e[1]] EXCEPT !.weight = e[2]]) :
              e \in edits}

WeightChanged == \E r \in WeightChangedSteps : Commit(r)

\* PromptController.updateText() with a text that is not blank, and the
\* prompt-changed event reaches handlePromptChanged
TextChangedSteps ==
  LET edits == {e \in PromptIds \X Texts : e[2] # prompts[e[1]].text}
  IN  IF ~connected THEN {}
      ELSE {updateText(World, e[1], e[2]) : e \in edits}

TextChanged == \E r \in TextChangedSteps : Commit(r)

\* the user empties the text of a channel, or leaves blanks only, and ends
\* the edit
TextClearedSteps ==
  IF ~connected THEN {}
  ELSE {updateText(World, e[1], e[2]) : e \in PromptIds \X BlankTexts}

TextCleared == \E r \in TextClearedSteps : Commit(r)

\* a drag on the knob or slider of a channel: pointerdown, then a pointermove
\* `delta` pixels up; the input event reaches updateWeight()
PointerMovedSteps ==
  IF ~connected THEN {}
  ELSE {handlePromptChanged(World,
          [prompts[e[1]] EXCEPT !.weight =
             handlePointerMove(prompts[e[1]].weight, e[2], displayMode(e[1]))]) :
          e \in PromptIds \X PointerDeltas}

PointerMoved == \E r \in PointerMovedSteps : Commit(r)

\* a click on the track of a slider
SliderPressedSteps ==
  IF ~connected THEN {}
  ELSE {handlePromptChanged(World,
          [prompts[e[1]] EXCEPT !.weight = handlePointerDown(e[2][1], e[2][2])]) :
          e \in {id \in PromptIds : displayMode(id) = "slider"} \X ClickPositions}

SliderPressed == \E r \in SliderPressedSteps : Commit(r)

\* the wheel over the knob or slider of a channel
WheelScrolledSteps ==
  IF ~connected THEN {}
  ELSE {handlePromptChanged(World,
          [prompts[e[1]] EXCEPT !.weight =
             handleWheel(prompts[e[1]].weight, e[2])]) :
          e \in PromptIds \X WheelDeltas}

WheelScrolled == \E r \in WheelScrolledSteps : Commit(r)

\* PromptController.handleCCMessage(e) of the controller of channel id, as a
\* handler whose learn mode takes the weight as well
controllerLearnsWeight(w, id, cc, value) ==
  IF w.learnMode[id]
  THEN handlePromptChanged([w EXCEPT !.learnMode[id] = FALSE],
         [w.prompts[id] EXCEPT !.cc = cc, !.weight = handleCCMessage(value)])
  ELSE IF cc = w.prompts[id].cc
       THEN handlePromptChanged(w,
              [w.prompts[id] EXCEPT !.weight = handleCCMessage(value)])
       ELSE w

\* PromptController.handleCCMessage(e) of the controller of channel id, then
\* dispatchPromptChange(): the controller's text, weight and cc are those of
\* the channel, which the parent renders into it
controllerCCMessage(w, id, cc, value) ==
  IF w.learnMode[id]
  THEN handlePromptChanged([w EXCEPT !.learnMode[id] = FALSE],
                           [w.prompts[id] EXCEPT !.cc = cc])
  ELSE IF cc = w.prompts[id].cc
       THEN handlePromptChanged(w,
              [w.prompts[id] EXCEPT !.weight = handleCCMessage(value)])
       ELSE w

\* a cc-message of the MidiDispatcher: the listener of every controller runs,
\* in the order of the channels
RECURSIVE ccMessage(_, _, _, _)
ccMessage(w, id, cc, value) ==
  IF id \notin PromptIds THEN w
  ELSE ccMessage(controllerCCMessage(w, id, cc, value), id + 1, cc, value)

\* input.onmidimessage of the MidiDispatcher, as a handler that does not look
\* at the input
onmidimessageOfAnyInput(w, input, data) ==
  IF input \notin w.midiDispatcher.onmidimessage THEN w
  ELSE IF (data[1] \div 16) * 16 # 176 THEN w
  ELSE ccMessage(w, 0, data[2], data[3])

\* input.onmidimessage of the MidiDispatcher, for the bytes of the message;
\* an input without the handler drops the message.  statusByte & 0xf0 is the
\* status without its low four bits, 0xb0 is 176.
onmidimessage(w, input, data) ==
  IF input \notin w.midiDispatcher.onmidimessage THEN w
  ELSE IF input # w.midiDispatcher.activeMidiInputId THEN w
  ELSE IF (data[1] \div 16) * 16 # 176 THEN w
  ELSE ccMessage(w, 0, data[2], data[3])

ControlChangeSteps ==
  IF ~connected THEN {}
  ELSE {ccMessage(World, 0, e[1], e[2]) :
          e \in {prompts[id].cc : id \in PromptIds} \X CCValues}

ControlChange == \E r \in ControlChangeSteps : Commit(r)

\* a click on the play/pause button
PlayPauseSteps == IF ~connected THEN {} ELSE {handlePlayPause(World)}

PlayPause == \E r \in PlayPauseSteps : Commit(r)

\* the preset select changes to one of its options
LoadPresetSteps ==
  IF ~connected THEN {}
  ELSE {handleLoadPreset(World, namedPresets[k].name) :
          k \in 1 .. Len(namedPresets)}

LoadPreset == \E r \in LoadPresetSteps : Commit(r)

\* the files the user can pick: the files given, and the file of the latest
\* export
Files == ImportFiles \cup {exported[k] : k \in 1 .. Len(exported)}

\* what the user answers to prompt(): the suggested name or Cancel, and for a
\* file given the name of a saved preset, for an exported file a name no
\* preset has
Answers(file) ==
  {"suggested", ""} \cup (IF file \in ImportFiles THEN {"A"} ELSE {"D"})

\* the user picks a file to import, answers the prompt for its name and the
\* question whether to overwrite
ImportPresetSteps ==
  IF ~connected THEN {}
  ELSE UNION {{handleImportPreset(World, file, e[1], e[2]) :
                 e \in Answers(file) \X BOOLEAN} : file \in Files}

ImportPreset == \E r \in ImportPresetSteps : Commit(r)

\* the names the user gives to a preset, "" for Cancel
PresetNames == {"", "A", "D"}

\* a click on Save As..., the prompt and the question answered
SavePresetAsSteps ==
  IF ~connected THEN {}
  ELSE {handleSavePresetAs(World, e[1], e[2]) : e \in PresetNames \X BOOLEAN}

SavePresetAs == \E r \in SavePresetAsSteps : Commit(r)

\* a click on Save (the button is disabled when no preset is active)
SaveCurrentPresetSteps ==
  IF ~connected \/ activePresetName = "" THEN {}
  ELSE {handleSaveCurrentPreset(World, e[1], e[2]) : e \in PresetNames \X BOOLEAN}

SaveCurrentPreset == \E r \in SaveCurrentPresetSteps : Commit(r)

\* a click on Delete (the button is disabled when no preset is active), the
\* question answered
DeleteCurrentPresetSteps ==
  IF ~connected \/ activePresetName = "" THEN {}
  ELSE {handleDeleteCurrentPreset(World, confirmed) : confirmed \in BOOLEAN}

DeleteCurrentPreset == \E r \in DeleteCurrentPresetSteps : Commit(r)

\* a click on the favorite button (disabled when no preset is active)
ToggleFavoriteSteps ==
  IF ~connected \/ activePresetName = "" THEN {}
  ELSE {handleToggleFavorite(World)}

ToggleFavorite == \E r \in ToggleFavoriteSteps : Commit(r)

\* a click on Export
ExportKnobsSteps == IF ~connected THEN {} ELSE {handleExportKnobs(World)}

ExportKnobs == \E r \in ExportKnobsSteps : Commit(r)

\* a click on Reset All, confirmed
ResetAllSteps == IF ~connected THEN {} ELSE {resetAllKnobsToDefault(World)}

ResetAll == \E r \in ResetAllSteps : Commit(r)

\* a click on the MIDI button
ToggleShowMidiSteps == IF ~connected THEN {} ELSE {toggleShowMidi(World)}

ToggleShowMidi == \E r \in ToggleShowMidiSteps : Commit(r)

\* the user answers the permission prompt of a requestMIDIAccess()
MidiAccessSettlesSteps ==
  IF midiRequests = 0 THEN {}
  ELSE {midiAccessSettles(World, granted) : granted \in BOOLEAN}

MidiAccessSettles == \E r \in MidiAccessSettlesSteps : Commit(r)

\* the devices plugged in
Plugged == {midiInputs[k] : k \in 1 .. Len(midiInputs)}

\* a MIDIAccess with an onstatechange queues a statechange event
queueStateChange(w) ==
  IF ~w.midiDispatcher.access THEN w
  ELSE IF w.stateChanges < MaxStateChanges
       THEN [w EXCEPT !.stateChanges = @ + 1]
       ELSE [w EXCEPT !.ok = FALSE]

\* a MIDI input is plugged in: it is the last of MIDIAccess.inputs
DevicePluggedSteps ==
  {queueStateChange([World EXCEPT !.midiInputs = Append(@, input)]) :
     input \in MidiInputIds \ Plugged}

DevicePlugged == \E r \in DevicePluggedSteps : Commit(r)

\* a MIDI input is unplugged
DeviceUnpluggedSteps ==
  {LET others(i) == i # input
   IN  queueStateChange([World EXCEPT !.midiInputs = SelectSeq(@, others)]) :
     input \in Plugged}

DeviceUnplugged == \E r \in DeviceUnpluggedSteps : Commit(r)

\* access.onstatechange: the dispatcher's midideviceschange event reaches
\* handleMidiDevicesChange
MidiDevicesChangeSteps ==
  IF stateChanges = 0 THEN {}
  ELSE {handleMidiDevicesChange([World EXCEPT !.stateChanges = @ - 1])}

MidiDevicesChange == \E r \in MidiDevicesChangeSteps : Commit(r)

\* the user chooses a device in the select, which is shown with the MIDI
\* controls; the empty option cannot be chosen once a device is active
MidiInputChangeSteps ==
  IF ~connected \/ ~showMidi THEN {}
  ELSE {handleMidiInputChange(World, midiInputIds[k]) :
          k \in 1 .. Len(midiInputIds)}

MidiInputChange == \E r \in MidiInputChangeSteps : Commit(r)

\* a click on the CC label of a channel, which is shown with the MIDI controls
ToggleLearnModeSteps ==
  IF ~connected \/ ~showMidi THEN {}
  ELSE {toggleLearnMode(World, id) : id \in PromptIds}

ToggleLearnMode == \E r \in ToggleLearnModeSteps : Commit(r)

\* a MIDI message of a device plugged in
MidiMessageSteps ==
  IF ~connected THEN {}
  ELSE {onmidimessage(World, e[1], e[2]) : e \in Plugged \X MidiData}

MidiMessage == \E r \in MidiMessageSteps : Commit(r)

\* the sizes of the data a recorder hands over: nothing, or some bytes
DataSizes == {0, 1}

\* a click on the record button
ToggleRecordingSteps ==
  IF ~connected \/ disconnected THEN {}
  ELSE {handleToggleRecording(World, supported) : supported \in BOOLEAN}

ToggleRecording == \E r \in ToggleRecordingSteps : Commit(r)

\* the task a stop() queued: the recorder fires dataavailable, then stop
RecorderStopsSteps ==
  {onstop(ondataavailable([World EXCEPT !.mediaRecorders[e[1]].ending = FALSE],
                          e[1], e[2]), e[1]) :
     e \in {rec \in 1 .. Len(mediaRecorders) : mediaRecorders[rec].ending}
           \X DataSizes}

RecorderStops == \E r \in RecorderStopsSteps : Commit(r)

\* a recorder that is recording cannot go on: it becomes inactive and fires
\* error, dataavailable and stop (the error before or after the data)
RecorderErrorSteps ==
  LET failed(rec) == [World EXCEPT !.mediaRecorders[rec].state = "inactive"]
      recording == {rec \in 1 .. Len(mediaRecorders) :
                      mediaRecorders[rec].state = "recording"}
  IN  {onstop(ondataavailable(onRecorderError(failed(e[1])), e[1], e[2]), e[1]) :
         e \in recording \X DataSizes}
      \cup
      {onstop(onRecorderError(ondataavailable(failed(e[1]), e[1], e[2])), e[1]) :
         e \in recording \X DataSizes}

RecorderError == \E r \in RecorderErrorSteps : Commit(r)

\* the promise of a convertWebMToWAV() settles, fulfilled or rejected
ConversionSettlesSteps ==
  {afterConvert([World EXCEPT !.conversions = RemoveAt(@, e[1])], e[2]) :
     e \in (1 .. Len(conversions)) \X BOOLEAN}

ConversionSettles == \E r \in ConversionSettlesSteps : Commit(r)

\* the element is taken out of the document
DisconnectedSteps ==
  IF ~connected \/ disconnected THEN {} ELSE {disconnectedCallback(World)}

Disconnected == \E r \in DisconnectedSteps : Commit(r)

\* the connect() calls that have not settled
Connecting ==
  {k \in 1 .. Len(tasks) :
     tasks[k].pc = "connect" /\ sessions[tasks[k].sid].st = "connecting"}

\* ai.live.music.connect() resolves: `this.session = await ...`
ConnectResolvesSteps ==
  {afterConnectToSession(
     [World EXCEPT !.tasks = RemoveAt(@, k),
                   !.sessions[tasks[k].sid].st = "open",
                   !.session = tasks[k].sid], tasks[k]) : k \in Connecting}

ConnectResolves == \E r \in ConnectResolvesSteps : Commit(r)

\* ai.live.music.connect() rejects
ConnectRejectsSteps ==
  {afterConnectToSession(
     connectFailed([World EXCEPT !.tasks = RemoveAt(@, k),
                                 !.sessions[tasks[k].sid] = ClosedSession]),
     tasks[k]) : k \in Connecting}

ConnectRejects == \E r \in ConnectRejectsSteps : Commit(r)

\* the sessions whose socket is open
Open == {sid \in 1 .. Len(sessions) : sessions[sid].st = "open"}

\* the server answers the setup message of an open session
SetupCompleteSteps ==
  {onSetupComplete([World EXCEPT !.sessions[sid].setup = TRUE]) :
     sid \in {o \in Open : ~sessions[o].setup}}

SetupComplete == \E r \in SetupCompleteSteps : Commit(r)

\* the server rejects a prompt text
FilteredPromptSteps ==
  IF \E sid \in Open : sessions[sid].setup
  THEN {onFilteredPrompt(World, text) : text \in Texts \ filteredPrompts}
  ELSE {}

FilteredPrompt == \E r \in FilteredPromptSteps : Commit(r)

\* an audio chunk of a session that was told to play
AudioChunkSteps ==
  IF \E sid \in Open : sessions[sid].played
  THEN {onAudioChunk(World, duration) : duration \in ChunkDurations}
  ELSE {}

AudioChunk == \E r \in AudioChunkSteps : Commit(r)

\* the socket of an open session reports an error
SessionErrorSteps ==
  {onerror([World EXCEPT !.sessions[sid] = FailedSession]) : sid \in Open}

SessionError == \E r \in SessionErrorSteps : Commit(r)

\* the socket of a session closes
SessionCloseSteps ==
  {onclose([World EXCEPT !.sessions[sid] = ClosedSession]) :
     sid \in {o \in 1 .. Len(sessions) : sessions[o].st \in {"open", "failed"}}}

SessionClose == \E r \in SessionCloseSteps : Commit(r)

\* the oldest pending timer is due
BufferTimerSteps ==
  IF timers = << >> THEN {}
  ELSE IF Head(timers) > currentTime THEN {}
  ELSE {onBufferTimer([World EXCEPT !.timers = Tail(@)])}

BufferTimer == \E r \in BufferTimerSteps : Commit(r)

\* 100 ms pass
Tick100ms ==
  /\ timeSinceLastCall < ThrottleDelay
  /\ Commit([World EXCEPT
       !.timeSinceLastCall = Min(@ + 1, ThrottleDelay),
       !.timeSinceLastPush = Observe(@, Min(@ + 1, ThrottleDelay))])

\* a second passes; a timer fires when it is due
TickSecond ==
  /\ currentTime < MaxTime
  /\ IF timers = << >> THEN TRUE ELSE Head(timers) > currentTime
  /\ Commit([World EXCEPT
       !.currentTime = @ + 1,
       !.timeSinceLastCall = ThrottleDelay,
       !.timeSinceLastPush = Observe(@, ThrottleDelay)])

\* every step a weight input can take from the current state
InputSteps ==
  UNION {
    {[by |-> "PointerMoved", w |-> r] : r \in PointerMovedSteps},
    {[by |-> "SliderPressed", w |-> r] : r \in SliderPressedSteps},
    {[by |-> "WheelScrolled", w |-> r] : r \in WheelScrolledSteps},
    {[by |-> "ControlChange", w |-> r] : r \in ControlChangeSteps} }

\* every step another handler can take from the current state, with its
\* handler
Steps ==
  UNION {
    {[by |-> "ConnectedCallback", w |-> r] : r \in ConnectedCallbackSteps},
    {[by |-> "WeightChanged", w |-> r] : r \in WeightChangedSteps},
    {[by |-> "TextChanged", w |-> r] : r \in TextChangedSteps},
    {[by |-> "PlayPause", w |-> r] : r \in PlayPauseSteps},
    {[by |-> "LoadPreset", w |-> r] : r \in LoadPresetSteps},
    {[by |-> "ResetAll", w |-> r] : r \in ResetAllSteps},
    {[by |-> "ConnectResolves", w |-> r] : r \in ConnectResolvesSteps},
    {[by |-> "ConnectRejects", w |-> r] : r \in ConnectRejectsSteps},
    {[by |-> "SetupComplete", w |-> r] : r \in SetupCompleteSteps},
    {[by |-> "FilteredPrompt", w |-> r] : r \in FilteredPromptSteps},
    {[by |-> "AudioChunk", w |-> r] : r \in AudioChunkSteps},
    {[by |-> "SessionError", w |-> r] : r \in SessionErrorSteps},
    {[by |-> "SessionClose", w |-> r] : r \in SessionCloseSteps},
    {[by |-> "BufferTimer", w |-> r] : r \in BufferTimerSteps} }

\* The channel store, the engine and the throttled push, with every failure of
\* the connection; no audio arrives.
Next ==
  \/ ConnectedCallback
  \/ WeightChanged
  \/ TextChanged
  \/ PlayPause
  \/ LoadPreset
  \/ ResetAll
  \/ ConnectResolves
  \/ ConnectRejects
  \/ SetupComplete
  \/ FilteredPrompt
  \/ SessionError
  \/ SessionClose
  \/ Tick100ms

Spec == Init /\ [][Next]_vars

\* The engine and the throttled push under weight edits, observed from the
\* far end.
NextPushes ==
  \/ ConnectedCallback
  \/ WeightChanged
  \/ PlayPause
  \/ ConnectResolves
  \/ ConnectRejects
  \/ SetupComplete
  \/ SessionError
  \/ SessionClose
  \/ Tick100ms

SpecPushes == InitPushes /\ [][NextPushes]_vars

\* The engine and the chunk scheduler, observed from the audio output.
NextAudio ==
  \/ ConnectedCallback
  \/ PlayPause
  \/ ConnectResolves
  \/ ConnectRejects
  \/ SetupComplete
  \/ SessionError
  \/ SessionClose
  \/ AudioChunk
  \/ BufferTimer
  \/ TickSecond

SpecAudio == InitAudio /\ [][NextAudio]_vars

\* The channel store under the weight inputs of the pointer, the wheel and
\* MIDI, preset import and load, and reset; no time passes and the connection
\* does not answer.
NextInputs ==
  \/ ConnectedCallback
  \/ PointerMoved
  \/ SliderPressed
  \/ WheelScrolled
  \/ ControlChange
  \/ ImportPreset
  \/ LoadPreset
  \/ ResetAll

SpecInputs == Init /\ [][NextInputs]_vars

\* a preset saved in an earlier visit with every channel turned up
FullPreset ==
  [name |-> "A",
   prompts |-> PromptList([id \in PromptIds |->
                 [buildDefaultPrompts[id] EXCEPT !.weight = WeightUnit]]),
   isFavorite |-> FALSE]

\* window.localStorage of a visit after that preset was saved
FullStorage ==
  [promptDjLastActivePrompts |-> << >>, promptDjNamedPresets |-> << FullPreset >>]

InitFilter ==
  InitFrom({FullStorage}, Unobserved, Unobserved, Unobserved, Unobserved)

\* The engine with a server that rejects prompt texts, under preset load and
\* reset.
NextFilter ==
  \/ ConnectedCallback
  \/ ConnectResolves
  \/ SetupComplete
  \/ PlayPause
  \/ FilteredPrompt
  \/ LoadPreset
  \/ ResetAll
  \/ Tick100ms

SpecFilter == InitFilter /\ [][NextFilter]_vars

\* The MIDI devices, the device list and the learn mode of the channels; the
\* server does not answer.
NextMidi ==
  \/ ConnectedCallback
  \/ ConnectResolves
  \/ ConnectRejects
  \/ ToggleShowMidi
  \/ MidiAccessSettles
  \/ DevicePlugged
  \/ DeviceUnplugged
  \/ MidiDevicesChange
  \/ MidiInputChange
  \/ ToggleLearnMode
  \/ MidiMessage

\* ... of a first visit
InitMidi ==
  InitFrom({EmptyStorage}, Unobserved, Unobserved, Unobserved, Unobserved)

SpecMidi == InitMidi /\ [][NextMidi]_vars

\* The channel store and the presets under export, import, preset load and
\* reset; no time passes and the connection does not answer.
NextPresets ==
  \/ ConnectedCallback
  \/ ExportKnobs
  \/ ImportPreset
  \/ LoadPreset
  \/ ResetAll

SpecPresets == Init /\ [][NextPresets]_vars

\* The collection of named presets under save as, save, delete, favorite,
\* import, preset load and reset; no time passes and the connection does not
\* answer.
NextNames ==
  \/ ConnectedCallback
  \/ SavePresetAs
  \/ SaveCurrentPreset
  \/ DeleteCurrentPreset
  \/ ToggleFavorite
  \/ ImportPreset
  \/ LoadPreset
  \/ ResetAll

SpecNames == Init /\ [][NextNames]_vars

\* The texts of the channels under text edits, import, preset load and reset;
\* no time passes and the connection does not answer.
NextTexts ==
  \/ ConnectedCallback
  \/ TextChanged
  \/ TextCleared
  \/ ImportPreset
  \/ LoadPreset
  \/ ResetAll

SpecTexts == Init /\ [][NextTexts]_vars

\* every step of the recorder from the current state, with its handler
RecorderSteps ==
  UNION {
    {[by |-> "ToggleRecording", w |-> r] : r \in ToggleRecordingSteps},
    {[by |-> "RecorderStops", w |-> r] : r \in RecorderStopsSteps},
    {[by |-> "RecorderError", w |-> r] : r \in RecorderErrorSteps},
    {[by |-> "ConversionSettles", w |-> r] : r \in ConversionSettlesSteps},
    {[by |-> "Disconnected", w |-> r] : r \in DisconnectedSteps} }

\* The recorder: the record button, the events of the MediaRecorders, the
\* conversions to WAV and the removal of the element; the engine waits for
\* its first connection.
NextRecorder ==
  \/ ConnectedCallback
  \/ ToggleRecording
  \/ RecorderStops
  \/ RecorderError
  \/ ConversionSettles
  \/ Disconnected

SpecRecorder == Init /\ [][NextRecorder]_vars

\* ... where time passes, a due timer fires and the session that was told to
\* play keeps sending chunks (the event loop and the server do not stall)
SpecAudioLive ==
  /\ InitAudioLive
  /\ [][NextAudio]_vars
  /\ WF_vars(TickSecond)
  /\ WF_vars(BufferTimer)
  /\ WF_vars(AudioChunk)

\* ------------------------------------------------------------- claims

\* the steps that stay inside the bounds of the model
Taken == {s \in Steps : s.w.ok}

Pushes(w) == {k \in 1 .. Len(w.calls) : w.calls[k].op = "setWeightedPrompts"}

Instructions(w, op) == {k \in 1 .. Len(w.calls) : w.calls[k].op = op}

\* list holds each channel of ps with weight > 0 and a text outside `filtered`
\* once, and nothing else
IsActiveList(list, ps, filtered) ==
  LET activeIds == {id \in PromptIds :
                      ps[id].weight > 0 /\ ps[id].text \notin filtered}
  IN  /\ Len(list) = Cardinality(activeIds)
      /\ \A id \in activeIds : \E k \in 1 .. Len(list) : list[k] = ps[id]

\* C1: every setWeightedPrompts call carries exactly the channels that, at the
\* instant of the call, have weight > 0 and a text that is not in the filtered
\* set, whatever edits, filtered-prompt messages, preset loads and resets came
\* before.
C1_PushCarriesTheActiveChannels ==
  \A s \in Taken : \A k \in Pushes(s.w) :
    IsActiveList(s.w.calls[k].arg, s.w.calls[k].prompts,
                 s.w.calls[k].filteredPrompts)

\* a push made while a channel with weight > 0 carries a filtered text
C1_FilteredChannelLeftOut ==
  \E s \in Taken : \E k \in Pushes(s.w) :
    LET c == s.w.calls[k]
    IN  \E id \in PromptIds :
          c.prompts[id].weight > 0 /\ c.prompts[id].text \in c.filteredPrompts

\* C2: while playback is loading or playing and the connection is healthy, a
\* weight or text edit reaches the session: the edit's handler pushes the
\* channels as the edit left them, or leaves an invocation of the push routine
\* suspended that will push them, or pauses because no channel is active.
\* (Nothing else of the program can push them later: it arms no timer for a
\* call the throttle dropped.)
C2_EditReachesTheSession ==
  \A s \in Taken :
    (/\ s.by \in {"WeightChanged", "TextChanged"}
     /\ playbackState \in {"loading", "playing"}
     /\ ~connectionError)
    => \/ \E k \in Pushes(s.w) : s.w.calls[k].prompts = s.w.prompts
       \/ \E k \in 1 .. Len(s.w.tasks) : s.w.tasks[k].fn = "setSessionPrompts"
       \/ s.w.playbackState = "paused"

\* C3: a setWeightedPrompts call is made at least 200 ms after the one before
\* it.
C3_PushesAreThrottleDelayApart ==
  \A s \in Taken : \A k \in Pushes(s.w) :
    s.w.calls[k].timeSinceLastPush >= ThrottleDelay

\* C4: play() from stopped or paused, with a healthy connection and an active
\* channel, moves the state to loading and pushes the active channels before
\* it tells the session to play.
C4_PlayPushesBeforeItStarts ==
  \A s \in Taken :
    (/\ s.by = "PlayPause"
     /\ playbackState \in {"stopped", "paused"}
     /\ ~connectionError
     /\ Len(getPromptsToSend(World)) > 0)
    => /\ s.w.playbackState = "loading"
       /\ \A k \in Instructions(s.w, "play") :
            \E j \in Pushes(s.w) :
              j < k /\ IsActiveList(s.w.calls[j].arg, prompts, filteredPrompts)

\* C5: play() with no active channel (and nothing to reconnect) leaves
\* playbackState as it was, pushes nothing and does not tell the session to
\* play.
C5_PlayWithoutActiveChannelAborts ==
  \A s \in Taken :
    (/\ s.by = "PlayPause"
     /\ playbackState \in {"stopped", "paused"}
     /\ ~connectionError
     /\ Len(getPromptsToSend(World)) = 0)
    => /\ s.w.playbackState = playbackState
       /\ Pushes(s.w) = {}
       /\ Instructions(s.w, "play") = {}

AllowedTransitions ==
  { <<"stopped", "loading">>, <<"paused", "loading">>, <<"loading", "playing">>,
    <<"playing", "paused">>, <<"loading", "paused">>, <<"playing", "loading">>,
    <<"loading", "stopped">>, <<"playing", "stopped">>, <<"paused", "stopped">> }

\* C6: playbackState starts as stopped; every step that changes it takes one
\* of the allowed transitions, and a step from stopped or paused to loading
\* is a play() that found the connection healthy (at once, or when its
\* reconnect returned) and a channel active.
C6_OnlyAllowedTransitions ==
  /\ ~connected => playbackState = "stopped"
  /\ \A s \in Taken :
       s.w.playbackState # playbackState
       => /\ <<playbackState, s.w.playbackState>> \in AllowedTransitions
          /\ (s.w.playbackState = "loading" /\ playbackState # "playing")
             => /\ s.by \in {"PlayPause", "ConnectResolves"}
                /\ s.by = "PlayPause" => ~connectionError
                /\ Len(getPromptsToSend(World)) > 0

\* C7: pause() in playing or loading sets the state to paused and nextStartTime
\* to 0, sends one pause instruction to the session (to this.session, when
\* there is one) and changes nothing else; a second pause() right after it, and
\* a pause() in stopped or paused, change nothing and send nothing.
C7_PauseIsIdempotent ==
  LET r == pause(World)
  IN  IF playbackState \in {"playing", "loading"}
      THEN /\ r.playbackState = "paused"
           /\ r.nextStartTime = 0
           /\ Len(r.calls) = (IF session # 0 THEN 1 ELSE 0)
           /\ \A k \in 1 .. Len(r.calls) :
                r.calls[k].op = "pause" /\ r.calls[k].sid = session
           /\ [r EXCEPT !.calls = << >>]
                = [World EXCEPT !.playbackState = "paused", !.nextStartTime = 0]
           /\ pause(r) = r
      ELSE r = World

\* the play/pause button pauses a playing engine whose lookahead clock runs
C7_PauseWhilePlaying ==
  /\ playbackState = "playing"
  /\ nextStartTime > 0
  /\ session # 0
  /\ PlayPauseSteps = {pause(World)}

\* C8: stop(), in each of the four states, manual or after a session error or
\* close, sends a stop instruction to the session (to this.session, when there
\* is one), sets playbackState to stopped and nextStartTime to 0.
C8_StopStopsInEveryState ==
  LET r == stop(World)
      stopped(w) ==
        /\ w.playbackState = "stopped"
        /\ w.nextStartTime = 0
        /\ Len(w.calls) = (IF session # 0 THEN 1 ELSE 0)
        /\ \A k \in 1 .. Len(w.calls) :
             w.calls[k].op = "stop" /\ w.calls[k].sid = session
  IN  /\ stopped(r)
      /\ \A s \in Taken :
           (\/ s.by \in {"SessionError", "SessionClose"}
            \/ (s.by = "PlayPause" /\ playbackState = "loading"))
           => stopped(s.w)

\* a session error reaches a playing engine whose lookahead clock runs
C8_ErrorWhilePlaying ==
  /\ playbackState = "playing"
  /\ nextStartTime > 0
  /\ \E s \in Taken : s.by = "SessionError"

\* C9: an audio chunk that arrives while playbackState is paused or stopped
\* changes nothing: nextStartTime and playbackState stay, no buffer is started
\* and no timer is armed.
C9_ChunkDiscardedWhenNotPlaying ==
  playbackState \in {"paused", "stopped"}
  => \A duration \in ChunkDurations :
       LET r == onAudioChunk(World, duration)
       IN  /\ r = World
           /\ r.started = << >>
           /\ r.timers = timers
           /\ \A s \in AudioChunkSteps : s = World

\* a chunk of a session that was told to play arrives at a paused engine
C9_ChunkWhilePaused ==
  /\ playbackState = "paused"
  /\ AudioChunkSteps # {}

\* C10: a chunk is started at the lookahead clock (at now + bufferTime when the
\* clock is at its sentinel, so that N chunks without underrun, pause or stop
\* leave it at first arrival + bufferTime + d1 + ... + dN), the clock advances
\* by the chunk's duration, and no chunk is started earlier than the chunk
\* started before it.
C10_StartTimesNeverDecrease ==
  \A s \in Taken :
    s.by = "AudioChunk"
    => \A k \in 1 .. Len(s.w.started) :
         LET c == s.w.started[k]
         IN  /\ s.w.nextStartTime = c.at + c.duration
             /\ nextStartTime = 0 => c.at = currentTime + bufferTime
             /\ nextStartTime >= currentTime /\ nextStartTime # 0
                => c.at = nextStartTime
             /\ c.at >= c.after

\* C11: a chunk that finds nextStartTime at the sentinel 0 opens a buffering
\* window: it sets the lookahead clock to now + bufferTime and arms the deferred
\* transition for that instant.  The state becomes playing only by the deferred
\* transition of the window that is open, bufferTime after the chunk that opened
\* it and not earlier; this holds for every window, across play/pause/stop
\* cycles.
C11_PlayingBufferTimeAfterWindowOpens ==
  \A s \in Taken :
    /\ (/\ s.by = "AudioChunk"
        /\ nextStartTime = 0
        /\ playbackState \in {"loading", "playing"})
       => /\ s.w.started[1].at = currentTime + bufferTime
          /\ s.w.timers = Append(timers, currentTime + bufferTime)
    /\ (s.w.playbackState = "playing" /\ playbackState # "playing")
       => /\ s.by = "BufferTimer"
          /\ playbackState = "loading"
          /\ Head(timers) = currentTime
          \* the timer is the one of the latest window, and that window was
          \* not ended by a pause() or a stop()
          /\ Len(timers) = 1
          /\ nextStartTime # 0

\* C12: a deferred loading -> playing timer that fires when playbackState is
\* paused, stopped or already playing does nothing: playbackState, nextStartTime,
\* the session and everything else stay as they are, and nothing is sent.
C12_StaleTimerIsNoOp ==
  /\ playbackState # "loading" => onBufferTimer(World) = World
  /\ \A s \in Taken :
       (s.by = "BufferTimer" /\ playbackState # "loading")
       => /\ s.w.playbackState = playbackState
          /\ s.w.nextStartTime = nextStartTime
          /\ s.w.session = session
          /\ s.w.sessions = sessions
          /\ s.w = [World EXCEPT !.timers = Tail(@)]

\* a timer armed before a pause() falls due while the engine is paused
C12_TimerDueWhilePaused ==
  /\ playbackState = "paused"
  /\ BufferTimerSteps # {}

\* C13: a chunk that arrives while playing or loading is never started at an
\* elapsed timestamp; when it finds the lookahead clock behind the output clock
\* (an underrun), the engine sets playbackState to loading and the lookahead
\* clock to now + bufferTime before it starts the chunk there.
C13_UnderrunRebuffers ==
  \A s \in Taken :
    (s.by = "AudioChunk" /\ playbackState \in {"playing", "loading"})
    => /\ Len(s.w.started) = 1
       /\ s.w.started[1].at >= currentTime
       /\ (nextStartTime # 0 /\ nextStartTime < currentTime)
          => /\ s.w.playbackState = "loading"
             /\ s.w.started[1].at = currentTime + bufferTime
             /\ s.w.nextStartTime
                  = currentTime + bufferTime + s.w.started[1].duration

\* a chunk arrives at a playing engine whose lookahead clock has run out
C13_ChunkAfterClockRanOut ==
  /\ playbackState = "playing"
  /\ nextStartTime # 0
  /\ nextStartTime < currentTime
  /\ \E s \in Taken : s.by = "AudioChunk"

\* C14: re-buffering is automatic.  After an underrun has reverted the state
\* to loading, the state eventually leaves loading: it returns to playing
\* without user action, unless a pause, a stop or a connection error ends the
\* re-buffering first.  (Time is bounded in the model: the property is asked of
\* the underruns at least bufferTime before the end of time.)
C14_RebufferingEnds ==
  (/\ underrunAt = currentTime
   /\ playbackState = "loading"
   /\ nextStartTime # 0
   /\ currentTime + bufferTime <= MaxTime)
  ~> (playbackState # "loading")

\* C15: a setupComplete message marks the connection healthy; if at that
\* moment no channel is active (weight > 0 and text not filtered) and the state
\* is neither paused nor stopped the engine pauses, and otherwise playbackState
\* (and the lookahead clock) stay as they are and nothing is sent.
C15_SetupCompleteMarksHealthy ==
  \A s \in Taken :
    s.by = "SetupComplete"
    => /\ s.w.connectionError = FALSE
       /\ IF /\ \A id \in PromptIds :
                  prompts[id].weight = 0 \/ prompts[id].text \in filteredPrompts
             /\ playbackState \notin {"paused", "stopped"}
          THEN /\ s.w.playbackState = "paused"
               /\ s.w.nextStartTime = 0
               /\ Len(s.w.calls) = 1
               /\ s.w.calls[1].op = "pause"
          ELSE /\ s.w.playbackState = playbackState
               /\ s.w.nextStartTime = nextStartTime
               /\ s.w.calls = << >>

\* the session is set up while the engine is loading with no channel active
C15_SetupWithoutActiveChannel ==
  /\ playbackState = "loading"
  /\ connectionError
  /\ getPromptsToSend(World) = << >>
  /\ \E s \in Taken : s.by = "SetupComplete"

\* C16: a filteredPrompt message adds the message's text to the filtered set;
\* it changes no channel's weight, text or control number, does not change
\* playbackState, and sends nothing to the session.
C16_FilteredPromptOnlyAddsText ==
  /\ \A text \in Texts :
       LET r == onFilteredPrompt(World, text)
       IN  /\ r.filteredPrompts = filteredPrompts \cup {text}
           /\ r.prompts = prompts
           /\ r.playbackState = playbackState
  /\ \A s \in Taken :
       s.by = "FilteredPrompt"
       => /\ \E text \in Texts : s.w.filteredPrompts = filteredPrompts \cup {text}
          /\ \A id \in PromptIds :
               /\ s.w.prompts[id].weight = prompts[id].weight
               /\ s.w.prompts[id].text = prompts[id].text
               /\ s.w.prompts[id].cc = prompts[id].cc
          /\ s.w.playbackState = playbackState
          /\ s.w.calls = << >>

\* the server filters the text of a channel that is turned up, while loading
C16_ActiveTextFiltered ==
  /\ playbackState = "loading"
  /\ \E s \in Taken :
       /\ s.by = "FilteredPrompt"
       /\ \E id \in PromptIds :
            /\ prompts[id].weight > 0
            /\ prompts[id].text \in s.w.filteredPrompts \ filteredPrompts

\* C17: once a text is in the filtered set, every push leaves out the channels
\* that carry it, whatever their weight, and the text stays in the set until a
\* channel that carries it has its text changed or a preset load or a reset
\* clears the set: weight changes and successful pushes do not remove it.
C17_FilteredTextStaysFiltered ==
  \A s \in Taken :
    /\ \A k \in Pushes(s.w) : \A j \in 1 .. Len(s.w.calls[k].arg) :
         s.w.calls[k].arg[j].text \notin s.w.calls[k].filteredPrompts
    /\ s.by \notin {"LoadPreset", "ResetAll"}
       => \A t \in filteredPrompts :
            (/\ \E id \in PromptIds : prompts[id].text = t
             /\ \A id \in PromptIds :
                  prompts[id].text = t => s.w.prompts[id].text = t)
            => t \in s.w.filteredPrompts

\* C18: a session error or close event marks the connection unhealthy and
\* stops the engine (playbackState stopped, nextStartTime 0) without a connect
\* attempt, and from then to the next call of play() no step makes a connect
\* attempt.
C18_ErrorStopsWithoutRetry ==
  \A s \in Steps :
    /\ s.by \in {"SessionError", "SessionClose"}
       => /\ s.w.connectionError
          /\ s.w.playbackState = "stopped"
          /\ s.w.nextStartTime = 0
          /\ Len(s.w.sessions) = Len(sessions)
          /\ s.w.tasks = tasks
    \* (a connect attempt beyond the sessions of the model leaves ok FALSE)
    /\ (sinceErrorStop = 1 /\ (Len(s.w.sessions) > Len(sessions) \/ ~s.w.ok))
       => /\ s.by = "PlayPause"
          /\ playbackState \in {"paused", "stopped"}

\* after the stop of a session error, with no play() since, the user moves a
\* knob while an earlier connect attempt is still waiting
C18_EditAfterErrorStop ==
  /\ sinceErrorStop = 1
  /\ connectionError
  /\ tasks # << >>
  /\ \E s \in Taken : s.by = "WeightChanged"

\* C19: every weight-setting input applied to a channel whose weight is in
\* [0, 2] (a MIDI CC value in 0..127, a knob or slider drag of any pixel delta,
\* a click on a slider's track, a wheel scroll of any delta) leaves the
\* channel's weight in [0, 2].
C19_InputsKeepWeightInRange ==
  LET inRange(weight) == 0 <= weight /\ weight <= 2 * WeightUnit
  IN  /\ \A value \in 0 .. 127 : inRange(handleCCMessage(value))
      /\ \A id \in PromptIds :
           inRange(prompts[id].weight)
           => /\ \A delta \in PointerDeltas :
                   /\ inRange(handlePointerMove(prompts[id].weight, delta, "knob"))
                   /\ inRange(handlePointerMove(prompts[id].weight, delta, "slider"))
              /\ \A delta \in WheelDeltas :
                   inRange(handleWheel(prompts[id].weight, delta))
              /\ \A click \in ClickPositions :
                   inRange(handlePointerDown(click[1], click[2]))
      /\ \A s \in InputSteps : \A id \in PromptIds :
           inRange(prompts[id].weight) => inRange(s.w.prompts[id].weight)

\* a drag upward on a channel that is turned up, further than the knob goes
C19_DragBeyondTheTop ==
  \E id \in PromptIds : \E delta \in PointerDeltas :
    /\ connected
    /\ prompts[id].weight > 0
    /\ prompts[id].weight + delta * (WeightUnit \div 100) > 2 * WeightUnit
    /\ \E s \in InputSteps :
         /\ s.by = "PointerMoved"
         /\ s.w.ok
         /\ s.w.prompts[id].weight = 2 * WeightUnit

\* C20: in every reachable state every channel's weight is within [0, 2],
\* whichever way the channels were changed: input events, preset load (also of
\* a preset made by importing a file), reset, or the restore of the last-active
\* snapshot at start-up.
C20_WeightsAlwaysInRange ==
  \A id \in PromptIds :
    0 <= prompts[id].weight /\ prompts[id].weight <= 2 * WeightUnit

\* C21: in every reachable state the live channel set holds exactly the
\* channels of the default structure, with the fixed ids prompt-0, prompt-1,
\* ... in that order, each under its own id: no edit, MIDI event, preset load,
\* import, reset or restore from storage adds, removes, renames or reorders a
\* channel id.
C21_ChannelIdsAreFixed ==
  /\ promptKeys = DefaultPromptIds
  /\ DOMAIN prompts = PromptIds
  /\ \A id \in PromptIds : prompts[id].promptId = id

\* the preset made from a file whose prompt carries an id of its own has been
\* loaded
C21_LoadedImportWithForeignId ==
  /\ activePresetName = "B"
  /\ \E k \in 1 .. Len(namedPresets) :
       /\ namedPresets[k].name = "B"
       /\ \A id \in PromptIds :
            prompts[id].weight = namedPresets[k].prompts[id + 1].weight

\* C22: the import of a file in which an entry lacks a non-null promptId, text,
\* weight, cc or color, or whose top level is neither an object with an array
\* `prompts` nor an array, is rejected as a whole with an error message: the
\* named presets, the stored presets, the live channels and the active preset
\* name stay as they are (and so does everything else), whatever the user
\* would answer.
C22_InvalidFileIsRejectedWhole ==
  connected
  => \A file \in Files :
       (\/ file.top \notin {"prompts", "array"}
        \/ \E k \in 1 .. Len(file.prompts) : file.prompts[k].has # PromptFields)
       => \A answer \in Answers(file) : \A overwrite \in BOOLEAN :
            LET r == handleImportPreset(World, file, answer, overwrite)
            IN  /\ r \in ImportPresetSteps
                /\ r.toasts = << "Error importing" >>
                /\ r.namedPresets = namedPresets
                /\ r.localStorage = localStorage
                /\ r.prompts = prompts
                /\ r.activePresetName = activePresetName
                /\ r = [World EXCEPT !.toasts = r.toasts]

\* a file whose first entry is complete and whose second has no text is
\* imported while a preset is loaded and the channels differ from it
C22_ImportWithOneBadEntry ==
  /\ connected
  /\ activePresetName # ""
  /\ \E k \in 1 .. Len(namedPresets) :
       namedPresets[k].name = activePresetName
       /\ namedPresets[k].prompts # PromptList(prompts)
  /\ \E file \in Files :
       /\ Len(file.prompts) = 2
       /\ file.prompts[1].has = PromptFields
       /\ file.prompts[2].has # PromptFields
       /\ \E r \in ImportPresetSteps : r.toasts = << "Error importing" >>

\* C23: the export of the channels, imported under a name no preset has and
\* then loaded, gives every channel the text, weight, control number and
\* color it had before the export.
C23_ExportImportLoadRoundTrip ==
  (connected /\ \A k \in 1 .. Len(namedPresets) : namedPresets[k].name # "D")
  => LET file == handleExportKnobs(World).exported[1]
         imported == handleImportPreset(World, file, "D", FALSE)
         loaded == handleLoadPreset(imported, "D")
     IN  /\ \E k \in 1 .. Len(imported.namedPresets) :
              imported.namedPresets[k].name = "D"
         /\ loaded.activePresetName = "D"
         /\ \A id \in PromptIds :
           /\ loaded.prompts[id].text = prompts[id].text
           /\ loaded.prompts[id].weight = prompts[id].weight
           /\ loaded.prompts[id].cc = prompts[id].cc
           /\ loaded.prompts[id].color = prompts[id].color

\* the recorders that are capturing
Capturing ==
  {rec \in 1 .. Len(mediaRecorders) : mediaRecorders[rec].state = "recording"}

\* C24: at most one capture is active at any time, a capture that is active
\* is marked by isRecording, and isRecording is set only while a capture is
\* active or being finalized (its stop event or its conversion to WAV is
\* outstanding); in particular, when a recording is started while the
\* conversion of the one before is in flight, the end of that conversion
\* leaves the new capture marked and no second capture can be started.
C24_OneCaptureMarkedByIsRecording ==
  /\ Cardinality(Capturing) <= 1
  /\ Capturing # {} => isRecording
  /\ isRecording
     => \/ Capturing # {}
        \/ \E rec \in 1 .. Len(mediaRecorders) : mediaRecorders[rec].ending
        \/ conversions # << >>

\* C25: every URL the recorder created and that is no longer held by one of
\* the two URL fields has been revoked (a URL that was replaced is released),
\* and once disconnectedCallback has run no URL is left unrevoked, for every
\* order of the teardown, a pending stop event and a pending conversion.
C25_EveryObjectURLIsReleased ==
  \A url \in 1 .. Len(objectURLs) :
    objectURLs[url] = "live"
    => /\ url \in {recordedAudioURL_WebM, recordedAudioURL_WAV}
       /\ ~disconnected

\* C26: when a recording is finalized with data, the WebM URL is there (made
\* and not revoked) at the moment the conversion starts; when the conversion
\* fails, that step leaves the WebM URL field and every URL as they were,
\* sets the WAV URL to null and ends the converting status.
C26_FailedConversionKeepsWebM ==
  \A s \in RecorderSteps :
    /\ (s.by \in {"RecorderStops", "RecorderError"}
        /\ Len(s.w.conversions) > Len(conversions))
       => /\ s.w.recordedAudioURL_WebM # 0
          /\ s.w.objectURLs[s.w.recordedAudioURL_WebM] = "live"
          /\ s.w.recordedAudioURL_WebM > Len(objectURLs)
          /\ s.w.isConverting
    /\ (s.by = "ConversionSettles" /\ s.w.objectURLs = objectURLs)
       => /\ s.w.recordedAudioURL_WebM = recordedAudioURL_WebM
          /\ s.w.recordedAudioURL_WAV = 0
          /\ ~s.w.isConverting
    /\ s.by = "ConversionSettles"
       => \A url \in 1 .. Len(objectURLs) : s.w.objectURLs[url] = objectURLs[url]
          \/ (url = recordedAudioURL_WAV /\ Len(s.w.objectURLs) > Len(objectURLs))

\* a conversion is in flight for the recording whose WebM URL is held
C26_ConversionOfHeldWebMFails ==
  /\ isConverting
  /\ conversions # << >>
  /\ recordedAudioURL_WebM # 0
  /\ objectURLs[recordedAudioURL_WebM] = "live"
  /\ \E s \in RecorderSteps :
       /\ s.by = "ConversionSettles"
       /\ s.w.objectURLs = objectURLs
       /\ s.w.recordedAudioURL_WAV = 0

\* C27: when a recorder that was stopped hands over zero bytes, no artifact is
\* produced: after its stop event both URL fields are null, no conversion
\* was started and isRecording is false.
C27_NoDataNoArtifact ==
  \A rec \in 1 .. Len(mediaRecorders) :
    mediaRecorders[rec].ending
    => LET r == onstop(ondataavailable(
                         [World EXCEPT !.mediaRecorders[rec].ending = FALSE],
                         rec, 0), rec)
       IN  /\ r \in RecorderStopsSteps
           /\ r.recordedAudioURL_WebM = 0
           /\ r.recordedAudioURL_WAV = 0
           /\ r.conversions = conversions
           /\ ~r.isRecording

\* ------------------------------------------------------------ C28
\* the message is a control change: its status is 0xB0 with any MIDI channel
IsControlChange(data) == data[1] \in 176 .. 191

\* C28: a control change of the selected device that reaches a channel in
\* learn mode gives the channel the message's controller number and ends the
\* learn mode; the channel's weight and text stay as they were, also when the
\* number is the one the channel had; the next control change of that number
\* sets the channel's weight to (value / 127) * 2.
C28_LearnTakesTheControllerNumber ==
  \A input \in Plugged : \A data \in MidiData :
    LET r == onmidimessage(World, input, data)
    IN  connected /\ input = activeMidiInputId /\ IsControlChange(data) =>
          \A id \in PromptIds :
            learnMode[id] =>
              /\ r.prompts[id].cc = data[2]
              /\ ~r.learnMode[id]
              /\ r.prompts[id].weight = prompts[id].weight
              /\ r.prompts[id].text = prompts[id].text
              /\ \A later \in MidiData :
                   LET r2 == onmidimessage(r, input, later)
                   IN  IsControlChange(later) =>
                         /\ r2.prompts[id].cc = data[2]
                         /\ r2.prompts[id].weight =
                              IF later[2] = data[2]
                              THEN (later[3] * 2 * WeightUnit) \div 127
                              ELSE prompts[id].weight

\* C28 witness: a channel in learn mode is reached by a control change with
\* the number it already has and a value that is not its weight; it keeps its
\* weight and leaves the learn mode
C28_LearnsTheNumberItHad ==
  \E input \in Plugged : \E data \in MidiData : \E id \in PromptIds :
    LET r == onmidimessage(World, input, data)
    IN  /\ connected /\ input = activeMidiInputId /\ IsControlChange(data)
        /\ learnMode[id]
        /\ data[2] = prompts[id].cc
        /\ handleCCMessage(data[3]) # prompts[id].weight
        /\ r.prompts[id].weight = prompts[id].weight
        /\ r.prompts[id].cc = data[2]
        /\ ~r.learnMode[id]

\* ------------------------------------------------------------ C29
\* C29: a control change of the selected device, on any MIDI channel, sets
\* the weight of every channel that is not in learn mode and has the message's
\* controller number to (value / 127) * 2 and leaves the other channels that
\* are not in learn mode as they were; a message with another status, or of a
\* device that is not the selected one, changes nothing.
C29_ControlChangeSetsMatchingChannels ==
  \A input \in Plugged : \A data \in MidiData :
    LET r == onmidimessage(World, input, data)
    IN  connected =>
          IF input = activeMidiInputId /\ IsControlChange(data)
          THEN \A id \in PromptIds :
                 ~learnMode[id] =>
                   r.prompts[id] =
                     IF prompts[id].cc = data[2]
                     THEN [prompts[id] EXCEPT
                             !.weight = (data[3] * 2 * WeightUnit) \div 127]
                     ELSE prompts[id]
          ELSE r = World

\* C29 witness: two channels have the controller number of a control change
\* sent on MIDI channel 1 by the selected device, and both take its weight
C29_TwoChannelsShareTheNumber ==
  \E input \in Plugged : \E data \in MidiData :
    LET r == onmidimessage(World, input, data)
    IN  /\ connected /\ input = activeMidiInputId /\ data[1] = 177
        /\ \A id \in PromptIds :
             /\ ~learnMode[id]
             /\ prompts[id].cc = data[2]
             /\ prompts[id].weight # handleCCMessage(data[3])
             /\ r.prompts[id].weight = handleCCMessage(data[3])

\* ------------------------------------------------------------ C30
\* the ids of a device list
IdsOf(list) == {list[k] : k \in 1 .. Len(list)}

\* C30: the selected id is null or in the application's device list, and the
\* dispatcher's active id is the application's; the handler of a devices-
\* changed notification leaves the list of the devices now plugged in, and
\* the selected id is: the first of the list (or null) when the selected
\* device is gone, the first of the list when none was selected, and else
\* unchanged.
C30_ActiveInputFollowsTheDeviceList ==
  /\ activeMidiInputId = 0 \/ activeMidiInputId \in IdsOf(midiInputIds)
  /\ midiDispatcher.activeMidiInputId = activeMidiInputId
  /\ \A r \in MidiDevicesChangeSteps :
       LET list == r.midiInputIds
           first == IF list = << >> THEN 0 ELSE list[1]
       IN  /\ list = midiInputs
           /\ r.activeMidiInputId =
                IF activeMidiInputId # 0 /\ activeMidiInputId \notin IdsOf(list)
                THEN first
                ELSE IF activeMidiInputId = 0 /\ list # << >> THEN first
                ELSE activeMidiInputId
           /\ r.activeMidiInputId = 0 \/ r.activeMidiInputId \in IdsOf(list)
           /\ r.midiDispatcher.activeMidiInputId = r.activeMidiInputId

\* C30 witness: a notification is handled after the selected device was
\* unplugged while another one is plugged in, and that one is selected
C30_ActiveInputVanished ==
  \E r \in MidiDevicesChangeSteps :
    /\ activeMidiInputId # 0
    /\ activeMidiInputId \notin Plugged
    /\ midiInputs # << >>
    /\ r.activeMidiInputId = midiInputs[1]
    /\ r.midiDispatcher.activeMidiInputId = midiInputs[1]

\* ------------------------------------------------------------ C31
\* an invocation of play() is suspended, at the connect or at the push
PlaySuspended == \E k \in 1 .. Len(tasks) : tasks[k].fn = "play"

\* C31: play() sets loading before each of its awaits, so the engine is paused
\* or stopped with a play() suspended only after a pause() or stop() in
\* between; the step in which a connect() settles, the only one that resumes
\* a suspended play(), then neither sets loading nor tells the session to play.
C31_ResumedPlayRespectsStop ==
  \A s \in Taken :
    (/\ s.by \in {"ConnectResolves", "ConnectRejects"}
     /\ PlaySuspended
     /\ playbackState \in {"paused", "stopped"})
    => /\ s.w.playbackState # "loading"
       /\ Instructions(s.w, "play") = {}

\* ------------------------------------------------------------ C32
\* every connect() in flight is the reconnect of a play()
OnlyPlayReconnects ==
  /\ Connecting # {}
  /\ \A k \in Connecting : tasks[k].fn = "play"

\* C32: when the reconnect of a play() fails, play() ends in stopped; when it
\* succeeds and a channel is active, play() goes on to loading.
C32_PlayProceedsAfterReconnect ==
  \A s \in Taken :
    OnlyPlayReconnects =>
      /\ s.by = "ConnectRejects" => s.w.playbackState = "stopped"
      /\ (s.by = "ConnectResolves" /\ Len(getPromptsToSend(World)) > 0)
         => s.w.playbackState = "loading"

\* ------------------------------------------------------------ C33
\* C33: at most one connect() is in flight and at most one session is open.
C33_OneConnectionAtATime ==
  /\ Cardinality({sid \in 1 .. Len(sessions) : sessions[sid].st = "connecting"}) <= 1
  /\ Cardinality(Open) <= 1

\* ------------------------------------------------------------ C34
\* C34: whenever playbackState is paused or stopped, nextStartTime is the
\* sentinel 0.
C34_ClockIsZeroWhenNotPlaying ==
  playbackState \in {"paused", "stopped"} => nextStartTime = 0

\* ------------------------------------------------------------ C35
\* C35: a handler that tells the session to play leaves the engine loading,
\* unless it tells the session to pause or stop afterwards.
C35_PlayIsSentOnlyWhenLoading ==
  \A s \in Taken :
    \A k \in Instructions(s.w, "play") :
      \/ s.w.playbackState = "loading"
      \/ \E j \in (k + 1) .. Len(s.w.calls) : s.w.calls[j].op \in {"pause", "stop"}

\* ------------------------------------------------------------ C36
\* C36: a preset load and a reset leave the filtered set empty, and every
\* push a preset load makes carries exactly the loaded channels with weight
\* > 0, whatever was filtered before.
C36_LoadPushesAgainstClearedSet ==
  \A s \in Taken :
    /\ (s.by = "ResetAll" \/ (s.by = "LoadPreset" /\ s.w.activePresetName # ""))
       => s.w.filteredPrompts = {}
    /\ (s.by = "LoadPreset" /\ s.w.activePresetName # "")
       => \A k \in Pushes(s.w) : IsActiveList(s.w.calls[k].arg, s.w.prompts, {})

\* ------------------------------------------------------------ C37
\* C37: after the load of a preset the live channels are the fixed ids, each
\* with the text, weight, control number and color of the preset's entry of
\* that id, or, when the preset has none, with the default text, control
\* number and color and weight 0; the active preset name is the loaded name.
C37_LoadReplacesTheChannelSet ==
  \A k \in 1 .. Len(namedPresets) :
    LET preset == namedPresets[k]
        r == handleLoadPreset(World, preset.name)
        at(id) == {j \in 1 .. Len(preset.prompts) : preset.prompts[j].promptId = id}
    IN  (connected /\ \A i \in 1 .. (k - 1) : namedPresets[i].name # preset.name)
        => /\ r.activePresetName = preset.name
           /\ DOMAIN r.prompts = PromptIds
           /\ \A id \in PromptIds :
                IF at(id) # {}
                THEN \E j \in at(id) :
                       /\ r.prompts[id].promptId = id
                       /\ r.prompts[id].text = preset.prompts[j].text
                       /\ r.prompts[id].weight = preset.prompts[j].weight
                       /\ r.prompts[id].cc = preset.prompts[j].cc
                       /\ r.prompts[id].color = preset.prompts[j].color
                ELSE r.prompts[id] = [buildDefaultPrompts[id] EXCEPT !.weight = 0]

\* C37 witness: a preset without an entry for a channel that is turned up in
\* the live set is loaded, and the channel is at weight 0 afterwards
C37_LoadDropsLiveChannel ==
  \E k \in 1 .. Len(namedPresets) : \E id \in PromptIds :
    LET preset == namedPresets[k]
        r == handleLoadPreset(World, preset.name)
    IN  /\ connected
        /\ \A j \in 1 .. Len(preset.prompts) : preset.prompts[j].promptId # id
        /\ prompts[id].weight > 0
        /\ r.prompts[id].weight = 0
        /\ r.activePresetName = preset.name

\* ------------------------------------------------------------ C38
\* the imports of the current state that store a preset: the file, the name
\* and the state the handler leaves
StoringImports ==
  {i \in [file : Files, answer : {"suggested", "A", "D"}, overwrite : BOOLEAN] :
     LET read == readPresetFile(i.file)
         name == IF i.answer = "suggested" THEN read.suggestedName ELSE i.answer
     IN  /\ connected
         /\ i.answer \in Answers(i.file)
         /\ ~read.throws
         /\ name # ""
         /\ (i.overwrite \/ \A k \in 1 .. Len(namedPresets) : namedPresets[k].name # name)}

\* the preset an import stores
StoredBy(i) ==
  LET read == readPresetFile(i.file)
      name == IF i.answer = "suggested" THEN read.suggestedName ELSE i.answer
      after == handleImportPreset(World, i.file, i.answer, i.overwrite).namedPresets
  IN  after[CHOOSE k \in 1 .. Len(after) : after[k].name = name]

\* the slots of an import take the entry of their id, else the entry at their
\* position, else the default at weight 0, and the preset has the fixed ids
SlotsAsMapped(i) ==
  LET array == i.file.prompts
      preset == StoredBy(i)
      byId(id) == {k \in 1 .. Len(array) : array[k].promptId = id}
  IN  /\ Len(preset.prompts) = NumChannels
      /\ \A id \in PromptIds :
           LET p == preset.prompts[id + 1]
               taken(ip) == /\ p.text = ip.text /\ p.weight = ip.weight /\ p.cc = ip.cc
                            /\ p.color = (IF ip.color = "" THEN buildDefaultPrompts[id].color ELSE ip.color)
           IN  /\ p.promptId = id
               /\ IF byId(id) # {} THEN \E k \in byId(id) : taken(array[k])
                  ELSE IF id < Len(array) THEN taken(array[id + 1])
                  ELSE p = [buildDefaultPrompts[id] EXCEPT !.weight = 0]

\* no entry of the file is taken by two slots
NoEntryTwice(i) ==
  \A id1, id2 \in PromptIds :
    LET k1 == importedPForThisSlot(i.file.prompts, id1)
        k2 == importedPForThisSlot(i.file.prompts, id2)
    IN  (id1 # id2 /\ k1 # 0) => k1 # k2

\* C38: an import that stores a preset stores one of the fixed ids in which a
\* slot has the imported entry of its id, else the entry at its position, else
\* its default at weight 0, and no imported entry is applied to two slots.
C38_ImportFillsEachSlotOnce ==
  \A i \in StoringImports : SlotsAsMapped(i) /\ NoEntryTwice(i)

\* ------------------------------------------------------------ C39
\* the names of a list of presets
NamesOf(presets) == {presets[k].name : k \in 1 .. Len(presets)}

\* C39: the collection holds at most one preset per name, a save as, save or
\* import keeps every name and adds at most the one it was given, and the
\* active preset name is null or the name of a preset of the collection.
C39_NamesAreAUniqueKey ==
  /\ Cardinality(NamesOf(namedPresets)) = Len(namedPresets)
  /\ activePresetName = "" \/ activePresetName \in NamesOf(namedPresets)
  /\ \A r \in SavePresetAsSteps \cup SaveCurrentPresetSteps \cup ImportPresetSteps :
       /\ NamesOf(namedPresets) \subseteq NamesOf(r.namedPresets)
       /\ Len(r.namedPresets) = Cardinality(NamesOf(r.namedPresets))
       /\ Len(r.namedPresets) <= Len(namedPresets) + 1

\* C39 witness: a save as under the name of a preset of the collection, which
\* is not the active one, replaces that preset
C39_SaveAsOverAnotherPreset ==
  \E name \in PresetNames :
    LET r == handleSavePresetAs(World, name, TRUE)
    IN  /\ connected
        /\ name \in NamesOf(namedPresets)
        /\ activePresetName # name
        /\ Len(namedPresets) > 1
        /\ r.namedPresets # namedPresets
        /\ Len(r.namedPresets) = Len(namedPresets)
        /\ r.activePresetName = name

\* ------------------------------------------------------------ C40
\* the texts of the channels
ChannelTexts(ps) == [id \in PromptIds |-> ps[id].text]

\* C40: no channel has the empty string as text, and a text edit that leaves
\* the field empty or blank leaves the texts of the channels as they are.
C40_TextIsNeverEmpty ==
  /\ \A id \in PromptIds : prompts[id].text # ""
  /\ \A r \in TextClearedSteps : ChannelTexts(r.prompts) = ChannelTexts(prompts)

====
